---- MODULE Spec2Model ----
(***************************************************************************)
(* A model of jlox-rs: the recursive-descent parser (src/parser/mod.rs),   *)
(* the name resolver (src/resolver) and the tree-walking evaluator over    *)
(* resolved statements (src/r_interpreter).                                *)
(*                                                                         *)
(* A source unit travels through the stages of Interpreter::execute_raw:   *)
(* Parser::parse, Resolver::resolve, and one Interpreter::execute per      *)
(* top-level statement of batch_execute.  Every stage is a pure operator   *)
(* translated from the Rust function of the same name; the actions of the  *)
(* state machine apply them to the unit in flight.                         *)
(*                                                                         *)
(* Conventions.  Option<T> is a sequence of length 0 (None) or 1 (Some).   *)
(* A parser function returns [ok, v, p]: ok = FALSE is Rust's None, p the  *)
(* parser state (cursor into the token stream, parsing mode) afterwards.   *)
(* Numbers are integers (the units only hold integer literals); strings    *)
(* are TLA+ strings.  The output sink is the in-memory buffer of           *)
(* tests/interpreter/helpers.rs, whose writes cannot fail.  A backquote   *)
(* of a Rust string literal is written as an apostrophe.                   *)
(***************************************************************************)
EXTENDS Integers, Sequences, FiniteSets, TLC

(***************************************************************************)
(* Tokens (src/scanner.rs).  line is left out: it is only used in reports. *)
(***************************************************************************)

\* scanner.rs 23-40 (keyword table) and 52-89 (punctuation and operators).
TokenTypeOf(lexeme) ==
    CASE lexeme = "(" -> "LeftParen"   [] lexeme = ")" -> "RightParen"
      [] lexeme = "{" -> "LeftBrace"   [] lexeme = "}" -> "RightBrace"
      [] lexeme = "," -> "Comma"       [] lexeme = "." -> "Dot"
      [] lexeme = "-" -> "Minus"       [] lexeme = "+" -> "Plus"
      [] lexeme = ";" -> "Semicolon"   [] lexeme = "*" -> "Star"
      [] lexeme = "/" -> "Slash"
      [] lexeme = "!" -> "Bang"        [] lexeme = "!=" -> "BangEqual"
      [] lexeme = "=" -> "Equal"       [] lexeme = "==" -> "EqualEqual"
      [] lexeme = "<" -> "Less"        [] lexeme = "<=" -> "LessEqual"
      [] lexeme = ">" -> "Greater"     [] lexeme = ">=" -> "GreaterEqual"
      [] lexeme = "and" -> "And"       [] lexeme = "class" -> "Class"
      [] lexeme = "else" -> "Else"     [] lexeme = "false" -> "False"
      [] lexeme = "for" -> "For"       [] lexeme = "fun" -> "Fun"
      [] lexeme = "if" -> "If"         [] lexeme = "nil" -> "Nil"
      [] lexeme = "or" -> "Or"         [] lexeme = "print" -> "Print"
      [] lexeme = "return" -> "Return" [] lexeme = "super" -> "Super"
      [] lexeme = "this" -> "This"     [] lexeme = "true" -> "True"
      [] lexeme = "var" -> "Var"       [] lexeme = "while" -> "While"
      [] lexeme = " " -> "Trivia"
      [] OTHER -> "Identifier"

\* scanner.rs 176-184 finalize_current_token: a token without literal payload.
Token(ty, lexeme) == [ty |-> ty, lexeme |-> lexeme, str |-> "", num |-> 0]

\* A keyword, punctuation, operator or identifier token, from its lexeme.
K(lexeme) == Token(TokenTypeOf(lexeme), lexeme)

\* scanner.rs 128-135: a Number token carries the parsed value.
Num(n) == [ty |-> "Number", lexeme |-> ToString(n), str |-> "", num |-> n]

\* scanner.rs 108-115: a String token; the literal is the lexeme without quotes.
Str(s) == [ty |-> "String", lexeme |-> "\"" \o s \o "\"", str |-> s, num |-> 0]

\* The token of a node that holds none (Expression::boolean takes a bool).
NoToken == Token("None", "")

None == <<>>
Some(x) == <<x>>

\* Bind([x \in {v} |-> e]) is e with x naming the value v: `let x = v; e`.
Bind(f) == f[CHOOSE x \in DOMAIN f : TRUE]

(***************************************************************************)
(* The scanner (src/scanner.rs) over a source text given as its sequence   *)
(* of characters.  A scan function returns [tok, p]: the token, None at    *)
(* the end of the text, and the position of the next unread character.     *)
(***************************************************************************)
Digits == {"0", "1", "2", "3", "4", "5", "6", "7", "8", "9"}

\* scanner.rs 168-170: is_alpha, ASCII letters and digits and the underscore.
is_alpha(c) ==
    c \in {"a", "b", "c", "d", "e", "f", "g", "h", "i", "j", "k", "l", "m",
           "n", "o", "p", "q", "r", "s", "t", "u", "v", "w", "x", "y", "z",
           "A", "B", "C", "D", "E", "F", "G", "H", "I", "J", "K", "L", "M",
           "N", "O", "P", "Q", "R", "S", "T", "U", "V", "W", "X", "Y", "Z",
           "_"} \cup Digits

\* scanner.rs 203-208: is_trivia.
is_trivia(c) == c \in {" ", "\r", "\t", "\n"}

\* scanner.rs 223-237: advance_while_true from position p, where f is the set
\* of the positions whose character the closure holds for; the position of
\* the first character for which it does not hold, or the end of the text.
advance_while_true(f, chars, p) ==
    CHOOSE q \in p..(Len(chars) + 1) :
        /\ \A i \in p..(q - 1) : i \in f
        /\ q \notin f

\* scanner.rs 186-188: finalize_buffer_into_lexeme, String::from_iter.
RECURSIVE String_from_iter(_)
String_from_iter(chars) ==
    IF chars = <<>> THEN "" ELSE chars[1] \o String_from_iter(Tail(chars))

\* scanner.rs 129: f64::from_str on a sequence of digits.
RECURSIVE f64_from_str(_)
f64_from_str(digits) ==
    IF digits = <<>> THEN 0
    ELSE 10 * f64_from_str(SubSeq(digits, 1, Len(digits) - 1))
             + (CHOOSE d \in 0..9 : ToString(d) = digits[Len(digits)])

\* An error token that leaves its last character unread.
finalize_error_token_unread(chars, p, q) ==
    [tok |-> Some(Token("SyntaxError", String_from_iter(SubSeq(chars, p, q - 1)))),
     p |-> q - 1]

\* scanner.rs 172-174: finalize_error_token, on the characters p .. q - 1.
finalize_error_token(chars, p, q) ==
    [tok |-> Some(Token("SyntaxError", String_from_iter(SubSeq(chars, p, q - 1)))),
     p |-> q]

\* A number that takes the dot after its last digit into its lexeme.
scan_number_absorbing_dot(chars, p, q, r) ==
    IF r <= Len(chars) /\ chars[r] = "."
    THEN [tok |-> Some([ty |-> "Number",
                        lexeme |-> String_from_iter(SubSeq(chars, p, r)),
                        str |-> "",
                        num |-> f64_from_str(SubSeq(chars, p, q - 1))]),
          p |-> r + 1]
    ELSE [tok |-> Some([ty |-> "Number",
                        lexeme |-> String_from_iter(SubSeq(chars, p, r - 1)),
                        str |-> "",
                        num |-> f64_from_str(SubSeq(chars, p, q - 1))]),
          p |-> r]

\* scanner.rs 117-138: a number, digits with an optional fraction; q is the
\* end of the integer digits and r the end of the lexeme.  The value of a
\* lexeme whose fraction is not zero is its integer part with the fraction
\* kept as text.
scan_number(chars, p, q, r) ==
    [tok |-> Some([ty |-> "Number",
                   lexeme |-> String_from_iter(SubSeq(chars, p, r - 1)),
                   str |-> IF r > q /\ f64_from_str(SubSeq(chars, q + 1, r - 1)) # 0
                           THEN String_from_iter(SubSeq(chars, q, r - 1)) ELSE "",
                   num |-> f64_from_str(SubSeq(chars, p, q - 1))]),
     p |-> r]

\* scanner.rs 49-166: scan_token.
RECURSIVE scan_token(_, _)
scan_token(chars, p) ==
    IF p > Len(chars) THEN [tok |-> None, p |-> p] ELSE
    Bind([c \in {chars[p]} |->
    CASE c \in {"(", ")", "{", "}", ",", ".", "-", "+", ";", "*"} ->
            [tok |-> Some(K(c)), p |-> p + 1]
      [] c \in {"!", "=", "<", ">"} ->
            IF p < Len(chars) /\ chars[p + 1] = "="
            THEN [tok |-> Some(K(c \o "=")), p |-> p + 2]
            ELSE [tok |-> Some(K(c)), p |-> p + 1]
      [] c = "/" ->
            IF p < Len(chars) /\ chars[p + 1] = "/"
            THEN scan_token(chars,
                            advance_while_true({i \in DOMAIN chars : chars[i] # "\n"}, chars, p + 2))
            ELSE [tok |-> Some(K(c)), p |-> p + 1]
      [] c = "\"" ->
            Bind([q \in {advance_while_true({i \in DOMAIN chars : chars[i] # "\""}, chars, p + 1)} |->
            IF q > Len(chars)
            THEN finalize_error_token(chars, p, q)
            ELSE [tok |-> Some(Str(String_from_iter(SubSeq(chars, p + 1, q - 1)))),
                  p |-> q + 1] ])
      [] c \in Digits ->
            Bind([q \in {advance_while_true({i \in DOMAIN chars : chars[i] \in Digits}, chars, p + 1)} |->
            IF q < Len(chars) /\ chars[q] = "." /\ chars[q + 1] \in Digits
            THEN scan_number(chars, p, q,
                     advance_while_true({i \in DOMAIN chars : chars[i] \in Digits}, chars, q + 1))
            ELSE scan_number(chars, p, q, q) ])
      [] is_alpha(c) /\ c \notin Digits ->
            Bind([q \in {advance_while_true({i \in DOMAIN chars : is_alpha(chars[i])}, chars, p + 1)} |->
            [tok |-> Some(K(String_from_iter(SubSeq(chars, p, q - 1)))), p |-> q] ])
      [] is_trivia(c) ->
            Bind([q \in {advance_while_true({i \in DOMAIN chars : is_trivia(chars[i])}, chars, p + 1)} |->
            [tok |-> Some(Token("Trivia", String_from_iter(SubSeq(chars, p, q - 1)))),
             p |-> q] ])
      [] OTHER -> finalize_error_token(chars, p, p + 1) ])

(***************************************************************************)
(* The unresolved AST (src/parser/ast.rs and the variants the parser and   *)
(* the resolver build and match).                                          *)
(***************************************************************************)
ExpressionStatement(e) == [k |-> "Expression", e |-> e]
PrintStatement(e) == [k |-> "Print", e |-> e]
VariableDeclarationStatement(identifier, initializer) ==
    [k |-> "VariableDeclaration", identifier |-> identifier, initializer |-> initializer]
FunctionDeclarationStatement(name, parameters, body) ==
    [k |-> "FunctionDeclaration", name |-> name, parameters |-> parameters, body |-> body]
BlockStatement(statements) == [k |-> "Block", statements |-> statements]
IfElseStatement(condition, if_branch, else_branch) ==
    [k |-> "IfElse", condition |-> condition, if_branch |-> if_branch,
     else_branch |-> else_branch]
WhileStatement(condition, body) == [k |-> "While", condition |-> condition, body |-> body]
ReturnStatement(keyword, value) == [k |-> "Return", keyword |-> keyword, value |-> value]

Expression_binary(left, operator, right) ==
    [k |-> "Binary", left |-> left, operator |-> operator, right |-> right]
Expression_unary(operator, operand) ==
    [k |-> "Unary", operator |-> operator, operand |-> operand]
Expression_boolean(b) == [k |-> "Literal", ty |-> "Boolean", b |-> b, t |-> NoToken]
Expression_null(t) == [k |-> "Literal", ty |-> "Null", b |-> FALSE, t |-> t]
Expression_number(t) == [k |-> "Literal", ty |-> "Number", b |-> FALSE, t |-> t]
Expression_string(t) == [k |-> "Literal", ty |-> "String", b |-> FALSE, t |-> t]
Expression_grouping(e) == [k |-> "Grouping", e |-> e]
Expression_variable_reference(t) == [k |-> "VariableReference", identifier |-> t]
Expression_variable_assignment(identifier, value) ==
    [k |-> "VariableAssignment", identifier |-> identifier, value |-> value]
Expression_call(callee, closing_parenthesis, arguments) ==
    [k |-> "Call", callee |-> callee, closing_parenthesis |-> closing_parenthesis,
     arguments |-> arguments]

(***************************************************************************)
(* The parser (src/parser/mod.rs).  ts is the token stream behind Source,  *)
(* p = [pos, mode] the cursor of the Peekable and the ParsingMode.         *)
(***************************************************************************)

\* parser/mod.rs 466-481: Source skips every Trivia token.
Source(tokens) == SelectSeq(tokens, LAMBDA t : t.ty # "Trivia")

\* parser/mod.rs 32-35: the parser as constructed by Parser::parse.
NewParser == [pos |-> 1, mode |-> "Normal"]

\* Peekable::peek on the token stream.
tokens_peek(ts, p) == IF p.pos <= Len(ts) THEN Some(ts[p.pos]) ELSE None

\* Peekable::next on the token stream.
tokens_next(ts, p) ==
    IF p.pos <= Len(ts)
    THEN [tok |-> Some(ts[p.pos]), p |-> [p EXCEPT !.pos = p.pos + 1]]
    ELSE [tok |-> None, p |-> p]

Fail(p) == [ok |-> FALSE, v |-> None, p |-> p]
Ok(v, p) == [ok |-> TRUE, v |-> v, p |-> p]

advance(ts, p) ==
    IF p.mode = "Normal" THEN tokens_next(ts, p) ELSE [tok |-> None, p |-> p]

peek(ts, p) == IF p.mode = "Normal" THEN tokens_peek(ts, p) ELSE None

is_at_end(ts, p) == tokens_peek(ts, p) = None

advance_on_match(ts, p, token_types) ==
    LET upcoming == tokens_peek(ts, p) IN
    IF upcoming = None THEN [tok |-> None, p |-> p]
    ELSE IF upcoming[1].ty \in token_types THEN advance(ts, p)
    ELSE [tok |-> None, p |-> p]

expect(ts, p, token_type) ==
    LET t == advance_on_match(ts, p, {token_type}) IN
    IF t.tok = None THEN [tok |-> None, p |-> [t.p EXCEPT !.mode = "ErrorRecovery"]]
    ELSE t

\* parser/mod.rs 94 and 360: the ceiling on parameters and arguments.
MaxArguments == 255

RECURSIVE declaration(_, _), function(_, _), function_parameters(_, _, _),
          statement(_, _), for_statement(_, _), block_statement(_, _),
          block_statement_loop(_, _, _), while_statement(_, _),
          if_else_statement(_, _), print_statement(_, _),
          expression_statement(_, _), expression(_, _), assignment(_, _),
          or(_, _), and(_, _), equality(_, _), comparison(_, _), term(_, _),
          factor(_, _), binary_loop(_, _, _, _), unary(_, _), call(_, _),
          call_loop(_, _), finish_call(_, _, _), finish_call_arguments(_, _, _),
          primary(_, _)

declaration(ts, p) ==
    LET fun == advance_on_match(ts, p, {"Fun"})
        var == advance_on_match(ts, p, {"Var"})
    IN
    IF fun.tok # None THEN function(ts, fun.p)
    ELSE IF var.tok # None THEN
        Bind([identifier \in {expect(ts, var.p, "Identifier")} |->
        IF identifier.tok = None THEN Fail(identifier.p) ELSE
        Bind([equal \in {advance_on_match(ts, identifier.p, {"Equal"})} |->
        Bind([init \in {IF equal.tok # None THEN expression(ts, equal.p)
                        ELSE Ok(None, identifier.p)} |->
        IF ~init.ok THEN Fail(init.p) ELSE
        Bind([semicolon \in {expect(ts, init.p, "Semicolon")} |->
        IF semicolon.tok = None THEN Fail(semicolon.p) ELSE
        Ok(VariableDeclarationStatement(
               identifier.tok[1],
               IF equal.tok # None THEN Some(init.v) ELSE None),
           semicolon.p) ]) ]) ]) ])
    ELSE statement(ts, p)

\* parser/mod.rs 85-92: the parameter loop; the comma is peeked, not consumed.
function_parameters(ts, p, parameters) ==
    Bind([identifier \in {expect(ts, p, "Identifier")} |->
    IF identifier.tok = None THEN Fail(identifier.p) ELSE
    Bind([upcoming \in {peek(ts, identifier.p)} |->
    IF upcoming = None THEN Fail(identifier.p) ELSE
    IF upcoming[1].ty # "Comma"
    THEN Ok(Append(parameters, identifier.tok[1]), identifier.p)
    ELSE function_parameters(ts, identifier.p,
                             Append(parameters, identifier.tok[1])) ]) ])

function(ts, p) ==
    Bind([name \in {expect(ts, p, "Identifier")} |->
    IF name.tok = None THEN Fail(name.p) ELSE
    Bind([left \in {expect(ts, name.p, "LeftParen")} |->
    IF left.tok = None THEN Fail(left.p) ELSE
    Bind([upcoming \in {peek(ts, left.p)} |->
    IF upcoming = None THEN Fail(left.p) ELSE
    Bind([parameters \in {IF upcoming[1].ty # "RightParen"
                          THEN function_parameters(ts, left.p, <<>>)
                          ELSE Ok(<<>>, left.p)} |->
    IF ~parameters.ok THEN Fail(parameters.p) ELSE
    Bind([right \in {expect(ts, parameters.p, "RightParen")} |->
    IF right.tok = None THEN Fail(right.p) ELSE
    IF Len(parameters.v) >= MaxArguments THEN Fail(right.p) ELSE
    Bind([brace \in {expect(ts, right.p, "LeftBrace")} |->
    IF brace.tok = None THEN Fail(brace.p) ELSE
    Bind([body \in {block_statement(ts, brace.p)} |->
    IF ~body.ok THEN Fail(body.p) ELSE
    Ok(FunctionDeclarationStatement(name.tok[1], parameters.v, body.v.statements),
       body.p) ]) ]) ]) ]) ]) ]) ])

statement(ts, p) ==
    LET print == advance_on_match(ts, p, {"Print"})
        while == advance_on_match(ts, p, {"While"})
        for == advance_on_match(ts, p, {"For"})
        if == advance_on_match(ts, p, {"If"})
        brace == advance_on_match(ts, p, {"LeftBrace"})
    IN
    IF print.tok # None THEN print_statement(ts, print.p) ELSE
    IF while.tok # None THEN while_statement(ts, while.p) ELSE
    IF for.tok # None THEN for_statement(ts, for.p) ELSE
    IF if.tok # None THEN if_else_statement(ts, if.p) ELSE
    IF brace.tok # None THEN block_statement(ts, brace.p) ELSE
    expression_statement(ts, p)

\* A desugaring that runs the increment before the body.
for_desugar_increment_first(initializer, condition, increment, body) ==
    LET body1 == IF increment # None
                 THEN BlockStatement(<<ExpressionStatement(increment[1]), body>>)
                 ELSE body
        body2 == WhileStatement(
                     IF condition # None THEN condition[1] ELSE Expression_boolean(TRUE),
                     body1)
    IN IF initializer # None THEN BlockStatement(<<initializer[1], body2>>) ELSE body2

\* parser/mod.rs 160-177: the de-sugaring of a for loop into a while loop.
for_desugar(initializer, condition, increment, body) ==
    LET body1 == IF increment # None
                 THEN BlockStatement(<<body, ExpressionStatement(increment[1])>>)
                 ELSE body
        body2 == WhileStatement(
                     IF condition # None THEN condition[1] ELSE Expression_boolean(TRUE),
                     body1)
    IN IF initializer # None THEN BlockStatement(<<initializer[1], body2>>) ELSE body2

\* Some(v) of a parsed v: the Some(..?) of the for clauses.
some(r) == IF r.ok THEN Ok(Some(r.v), r.p) ELSE r

for_statement(ts, p) ==
    Bind([left \in {expect(ts, p, "LeftParen")} |->
    IF left.tok = None THEN Fail(left.p) ELSE
    Bind([semi \in {advance_on_match(ts, left.p, {"Semicolon"})} |->
    Bind([upcoming \in {peek(ts, left.p)} |->
    Bind([initializer \in
             {IF semi.tok # None THEN Ok(None, semi.p)
              ELSE IF upcoming # None /\ upcoming[1].ty = "Var"
              THEN some(declaration(ts, left.p))
              ELSE some(expression_statement(ts, left.p))} |->
    IF ~initializer.ok THEN Fail(initializer.p) ELSE
    Bind([upcoming2 \in {peek(ts, initializer.p)} |->
    IF upcoming2 = None THEN Fail(initializer.p) ELSE
    Bind([condition \in
             {IF upcoming2[1].ty = "Semicolon" THEN Ok(None, initializer.p)
              ELSE some(expression(ts, initializer.p))} |->
    IF ~condition.ok THEN Fail(condition.p) ELSE
    Bind([semi2 \in {expect(ts, condition.p, "Semicolon")} |->
    IF semi2.tok = None THEN Fail(semi2.p) ELSE
    Bind([upcoming3 \in {peek(ts, semi2.p)} |->
    IF upcoming3 = None THEN Fail(semi2.p) ELSE
    Bind([increment \in
             {IF upcoming3[1].ty = "RightParen" THEN Ok(None, semi2.p)
              ELSE some(expression(ts, semi2.p))} |->
    IF ~increment.ok THEN Fail(increment.p) ELSE
    Bind([right \in {expect(ts, increment.p, "RightParen")} |->
    IF right.tok = None THEN Fail(right.p) ELSE
    Bind([body \in {statement(ts, right.p)} |->
    IF ~body.ok THEN Fail(body.p) ELSE
    Ok(for_desugar(initializer.v, condition.v, increment.v, body.v), body.p)
    ]) ]) ]) ]) ]) ]) ]) ]) ]) ]) ])

\* parser/mod.rs 183-193: the loop of block_statement.
block_statement_loop(ts, p, statements) ==
    LET t == peek(ts, p) IN
    IF is_at_end(ts, p) THEN Ok(statements, p) ELSE
    IF t # None /\ t[1].ty = "RightBrace" THEN Ok(statements, p) ELSE
    Bind([d \in {declaration(ts, p)} |->
    IF ~d.ok THEN Fail(d.p) ELSE
    block_statement_loop(ts, d.p, Append(statements, d.v)) ])

block_statement(ts, p) ==
    Bind([statements \in {block_statement_loop(ts, p, <<>>)} |->
    IF ~statements.ok THEN Fail(statements.p) ELSE
    Bind([brace \in {expect(ts, statements.p, "RightBrace")} |->
    IF brace.tok = None THEN Fail(brace.p) ELSE
    Ok(BlockStatement(statements.v), brace.p) ]) ])

while_statement(ts, p) ==
    Bind([left \in {expect(ts, p, "LeftParen")} |->
    IF left.tok = None THEN Fail(left.p) ELSE
    Bind([condition \in {expression(ts, left.p)} |->
    IF ~condition.ok THEN Fail(condition.p) ELSE
    Bind([right \in {expect(ts, condition.p, "RightParen")} |->
    IF right.tok = None THEN Fail(right.p) ELSE
    Bind([body \in {statement(ts, right.p)} |->
    IF ~body.ok THEN Fail(body.p) ELSE
    Ok(WhileStatement(condition.v, body.v), body.p) ]) ]) ]) ])

\* A parser that gives an else to the farthest if that has none: the else the
\* nested if of the if branch took is handed to the enclosing if.
if_else_statement_farthest(ts, p) ==
    Bind([left \in {expect(ts, p, "LeftParen")} |->
    IF left.tok = None THEN Fail(left.p) ELSE
    Bind([condition \in {expression(ts, left.p)} |->
    IF ~condition.ok THEN Fail(condition.p) ELSE
    Bind([right \in {expect(ts, condition.p, "RightParen")} |->
    IF right.tok = None THEN Fail(right.p) ELSE
    Bind([if_branch \in {statement(ts, right.p)} |->
    IF ~if_branch.ok THEN Fail(if_branch.p) ELSE
    Bind([else \in {advance_on_match(ts, if_branch.p, {"Else"})} |->
    IF else.tok = None
    THEN IF if_branch.v.k = "IfElse" /\ if_branch.v.else_branch # None
         THEN Ok(IfElseStatement(condition.v,
                                 [if_branch.v EXCEPT !.else_branch = None],
                                 if_branch.v.else_branch), if_branch.p)
         ELSE Ok(IfElseStatement(condition.v, if_branch.v, None), if_branch.p)
    ELSE Bind([else_branch \in {statement(ts, else.p)} |->
         IF ~else_branch.ok THEN Fail(else_branch.p) ELSE
         Ok(IfElseStatement(condition.v, if_branch.v, Some(else_branch.v)),
            else_branch.p) ]) ]) ]) ]) ]) ])


if_else_statement(ts, p) ==
    Bind([left \in {expect(ts, p, "LeftParen")} |->
    IF left.tok = None THEN Fail(left.p) ELSE
    Bind([condition \in {expression(ts, left.p)} |->
    IF ~condition.ok THEN Fail(condition.p) ELSE
    Bind([right \in {expect(ts, condition.p, "RightParen")} |->
    IF right.tok = None THEN Fail(right.p) ELSE
    Bind([if_branch \in {statement(ts, right.p)} |->
    IF ~if_branch.ok THEN Fail(if_branch.p) ELSE
    Bind([else \in {advance_on_match(ts, if_branch.p, {"Else"})} |->
    IF else.tok = None
    THEN Ok(IfElseStatement(condition.v, if_branch.v, None), if_branch.p)
    ELSE Bind([else_branch \in {statement(ts, else.p)} |->
         IF ~else_branch.ok THEN Fail(else_branch.p) ELSE
         Ok(IfElseStatement(condition.v, if_branch.v, Some(else_branch.v)),
            else_branch.p) ]) ]) ]) ]) ]) ])

print_statement(ts, p) ==
    Bind([expr \in {expression(ts, p)} |->
    IF ~expr.ok THEN Fail(expr.p) ELSE
    Bind([semicolon \in {expect(ts, expr.p, "Semicolon")} |->
    IF semicolon.tok = None THEN Fail(semicolon.p) ELSE
    Ok(PrintStatement(expr.v), semicolon.p) ]) ])

expression_statement(ts, p) ==
    Bind([expr \in {expression(ts, p)} |->
    IF ~expr.ok THEN Fail(expr.p) ELSE
    Bind([semicolon \in {expect(ts, expr.p, "Semicolon")} |->
    IF semicolon.tok = None THEN Fail(semicolon.p) ELSE
    Ok(ExpressionStatement(expr.v), semicolon.p) ]) ])

expression(ts, p) == assignment(ts, p)

\* An assignment whose value is parsed one level down, as a logic_or.
assignment_of_or(ts, p) ==
    Bind([expr \in {or(ts, p)} |->
    IF ~expr.ok THEN Fail(expr.p) ELSE
    Bind([equal \in {advance_on_match(ts, expr.p, {"Equal"})} |->
    IF equal.tok = None THEN expr ELSE
    Bind([value \in {or(ts, equal.p)} |->
    IF ~value.ok THEN Fail(value.p) ELSE
    IF expr.v.k = "VariableReference"
    THEN Ok(Expression_variable_assignment(expr.v.identifier, value.v), value.p)
    ELSE Fail(value.p) ]) ]) ])

\* parser/mod.rs 241-256: assignment.
assignment(ts, p) ==
    Bind([expr \in {or(ts, p)} |->
    IF ~expr.ok THEN Fail(expr.p) ELSE
    Bind([equal \in {advance_on_match(ts, expr.p, {"Equal"})} |->
    IF equal.tok = None THEN expr ELSE
    Bind([value \in {assignment(ts, equal.p)} |->
    IF ~value.ok THEN Fail(value.p) ELSE
    IF expr.v.k = "VariableReference"
    THEN Ok(Expression_variable_assignment(expr.v.identifier, value.v), value.p)
    ELSE Fail(value.p) ]) ]) ])

\* The operand parser of each binary precedence level.
binary_operand(level, ts, p) ==
    CASE level = "or" -> and(ts, p)
      [] level = "and" -> equality(ts, p)
      [] level = "equality" -> comparison(ts, p)
      [] level = "comparison" -> term(ts, p)
      [] level = "term" -> factor(ts, p)
      [] level = "factor" -> unary(ts, p)

\* `while let Some(operator) = self.advance_on_match(..)` of or .. factor;
\* r is the expression parsed so far, None when its first operand failed.
binary_loop(level, token_types, ts, r) ==
    IF ~r.ok THEN Fail(r.p) ELSE
    Bind([operator \in {advance_on_match(ts, r.p, token_types)} |->
    IF operator.tok = None THEN r ELSE
    Bind([right \in {binary_operand(level, ts, operator.p)} |->
    IF ~right.ok THEN Fail(right.p) ELSE
    binary_loop(level, token_types, ts,
                Ok(Expression_binary(r.v, operator.tok[1], right.v), right.p)) ]) ])

or(ts, p) == binary_loop("or", {"Or"}, ts, and(ts, p))

and(ts, p) == binary_loop("and", {"And"}, ts, equality(ts, p))

equality(ts, p) ==
    binary_loop("equality", {"EqualEqual", "EqualEqual"}, ts, comparison(ts, p))

comparison(ts, p) ==
    binary_loop("comparison", {"Greater", "GreaterEqual", "Less", "LessEqual"}, ts,
                term(ts, p))

term(ts, p) == binary_loop("term", {"Minus", "Plus"}, ts, factor(ts, p))

factor(ts, p) == binary_loop("factor", {"Slash", "Star"}, ts, unary(ts, p))

unary(ts, p) ==
    Bind([operator \in {advance_on_match(ts, p, {"Bang", "Minus"})} |->
    IF operator.tok = None THEN call(ts, p) ELSE
    Bind([operand \in {unary(ts, operator.p)} |->
    IF ~operand.ok THEN Fail(operand.p) ELSE
    Ok(Expression_unary(operator.tok[1], operand.v), operand.p) ]) ])

\* parser/mod.rs 336-345: the postfix loop of call; r is the callee so far,
\* None when primary or finish_call failed.
call_loop(ts, r) ==
    IF ~r.ok THEN Fail(r.p) ELSE
    Bind([left \in {advance_on_match(ts, r.p, {"LeftParen"})} |->
    IF left.tok = None THEN r ELSE call_loop(ts, finish_call(ts, left.p, r.v)) ])

call(ts, p) == call_loop(ts, primary(ts, p))

\* parser/mod.rs 352-357: the argument loop; the comma is peeked, not consumed.
finish_call_arguments(ts, p, arguments) ==
    Bind([e \in {expression(ts, p)} |->
    IF ~e.ok THEN Fail(e.p) ELSE
    Bind([upcoming \in {peek(ts, e.p)} |->
    IF upcoming = None THEN Fail(e.p) ELSE
    IF upcoming[1].ty # "Comma" THEN Ok(Append(arguments, e.v), e.p)
    ELSE finish_call_arguments(ts, e.p, Append(arguments, e.v)) ]) ])

finish_call(ts, p, callee) ==
    Bind([upcoming \in {peek(ts, p)} |->
    IF upcoming = None THEN Fail(p) ELSE
    Bind([arguments \in {IF upcoming[1].ty # "RightParen"
                         THEN finish_call_arguments(ts, p, <<>>)
                         ELSE Ok(<<>>, p)} |->
    IF ~arguments.ok THEN Fail(arguments.p) ELSE
    Bind([closing_parenthesis \in {expect(ts, arguments.p, "RightParen")} |->
    IF closing_parenthesis.tok = None THEN Fail(closing_parenthesis.p) ELSE
    IF Len(arguments.v) >= MaxArguments THEN Fail(closing_parenthesis.p) ELSE
    Ok(Expression_call(callee, closing_parenthesis.tok[1], arguments.v),
       closing_parenthesis.p) ]) ]) ])

\* parser/mod.rs 385-390: the Grouping arm of primary, after the `(`.
grouping(ts, p) ==
    Bind([expr \in {expression(ts, p)} |->
    IF ~expr.ok THEN Fail(expr.p) ELSE
    Bind([right \in {expect(ts, expr.p, "RightParen")} |->
    IF right.tok = None THEN Fail(right.p) ELSE
    Ok(Expression_grouping(expr.v), right.p) ]) ])

primary(ts, p) ==
    LET true == advance_on_match(ts, p, {"True"})
        false == advance_on_match(ts, p, {"False"})
        nil == advance_on_match(ts, p, {"Nil"})
        number == advance_on_match(ts, p, {"Number"})
        string == advance_on_match(ts, p, {"String"})
        identifier == advance_on_match(ts, p, {"Identifier"})
        left == advance_on_match(ts, p, {"LeftParen"})
    IN
    IF true.tok # None THEN Ok(Expression_boolean(TRUE), true.p) ELSE
    IF false.tok # None THEN Ok(Expression_boolean(FALSE), false.p) ELSE
    IF nil.tok # None THEN Ok(Expression_null(nil.tok[1]), nil.p) ELSE
    IF number.tok # None THEN Ok(Expression_number(number.tok[1]), number.p) ELSE
    IF string.tok # None THEN Ok(Expression_string(string.tok[1]), string.p) ELSE
    IF identifier.tok # None
    THEN Ok(Expression_variable_reference(identifier.tok[1]), identifier.p) ELSE
    IF left.tok # None THEN grouping(ts, left.p)
    ELSE Fail([p EXCEPT !.mode = "ErrorRecovery"])

\* parser/mod.rs 413-420: the tokens that begin a statement.
RecoveryPoints == {"Class", "Fun", "Var", "For", "If", "Print", "Return", "While"}

\* A recovery that looks at the upcoming token before it consumes one, and
\* stops in front of a token that begins a statement.
RECURSIVE advance_until_recovery_point_peeking(_, _)
advance_until_recovery_point_peeking(ts, p) ==
    Bind([upcoming \in {tokens_peek(ts, p)} |->
    IF upcoming = None THEN p ELSE
    IF upcoming[1].ty \in RecoveryPoints THEN p ELSE
    Bind([current \in {tokens_next(ts, p)} |->
    IF current.tok[1].ty = "Semicolon" THEN current.p
    ELSE advance_until_recovery_point_peeking(ts, current.p) ]) ])

RECURSIVE advance_until_recovery_point(_, _)
advance_until_recovery_point(ts, p) ==
    Bind([current \in {tokens_next(ts, p)} |->
    IF current.tok = None THEN current.p ELSE
    IF current.tok[1].ty = "Semicolon" THEN current.p ELSE
    Bind([upcoming \in {tokens_peek(ts, current.p)} |->
    IF upcoming = None THEN current.p ELSE
    IF upcoming[1].ty \in RecoveryPoints THEN current.p
    ELSE advance_until_recovery_point(ts, current.p) ]) ])

\* parser/mod.rs 39-50: the loop of Parser::parse.
RECURSIVE parse_loop(_, _, _, _)
parse_loop(ts, p, statements, has_errored) ==
    IF is_at_end(ts, p)
    THEN [ok |-> ~has_errored, statements |-> statements, p |-> p]
    ELSE Bind([s \in {declaration(ts, p)} |->
         IF s.ok THEN parse_loop(ts, s.p, Append(statements, s.v), has_errored)
         ELSE parse_loop(ts, advance_until_recovery_point(ts, s.p), statements, TRUE)
         ])

\* A parse that returns Ok with the statements it could parse.
parse_has_not_errored(tokens) ==
    [parse_loop(Source(tokens), NewParser, <<>>, FALSE) EXCEPT !.ok = TRUE]

\* Parser::parse: Ok(statements) when ok, Err(statements) otherwise.
parse(tokens) == parse_loop(Source(tokens), NewParser, <<>>, FALSE)

(***************************************************************************)
(* The resolver's environment (src/resolver/environment.rs).  A Scope maps *)
(* a name to (BindingId, BindingStatus) and records its failed lookups; a  *)
(* BindingId is the value of binding_id_cursor at the declaration.         *)
(***************************************************************************)
EmptyMap == [n \in {} |-> 0]

\* environment.rs 73-82: Scope::default().
Scope_default == [bindings |-> EmptyMap, failed_variable_lookups |-> {}]

\* environment.rs 14-20: Environment::new().
Environment_new ==
    [current_scope |-> Scope_default, parent_scopes |-> <<>>, binding_id_cursor |-> 0]

\* environment.rs 85-91: Scope::define.
Scope_define(scope, variable_name, binding_id) ==
    [scope EXCEPT !.bindings =
        (variable_name :> [id |-> binding_id, status |-> "Uninitialized"]) @@ @]

\* environment.rs 93-105: Scope::assign.
Scope_assign(scope, variable_name) ==
    IF variable_name \notin DOMAIN scope.bindings
    THEN [ok |-> FALSE, id |-> 0,
          scope |-> [scope EXCEPT !.failed_variable_lookups = @ \cup {variable_name}]]
    ELSE [ok |-> TRUE, id |-> scope.bindings[variable_name].id,
          scope |-> [scope EXCEPT !.bindings[variable_name].status = "Initialized"]]

\* environment.rs 107-114: Scope::get.
Scope_get(scope, variable_name) ==
    IF variable_name \notin DOMAIN scope.bindings
    THEN [ok |-> FALSE, id |-> 0, status |-> "Uninitialized",
          scope |-> [scope EXCEPT !.failed_variable_lookups = @ \cup {variable_name}]]
    ELSE [ok |-> TRUE, id |-> scope.bindings[variable_name].id,
          status |-> scope.bindings[variable_name].status, scope |-> scope]

\* environment.rs 22-26: enter_scope.
enter_scope(env) ==
    [env EXCEPT !.parent_scopes = Append(@, env.current_scope),
                !.current_scope = Scope_default]

\* An exit_scope that hands the binding ids of the scope that is left back
\* to the cursor, for the declarations that follow the block.
exit_scope_releasing_ids(env) ==
    [scope |-> env.current_scope,
     env |-> [env EXCEPT !.current_scope = env.parent_scopes[Len(env.parent_scopes)],
                         !.parent_scopes = SubSeq(@, 1, Len(@) - 1),
                         !.binding_id_cursor =
                             @ - Cardinality(DOMAIN env.current_scope.bindings)]]

\* environment.rs 28-32: exit_scope returns the scope that is left.
exit_scope(env) ==
    [scope |-> env.current_scope,
     env |-> [env EXCEPT !.current_scope = env.parent_scopes[Len(env.parent_scopes)],
                         !.parent_scopes = SubSeq(@, 1, Len(@) - 1)]]

\* A define that gives a name that is visible already the binding id it has,
\* so that a declaration in a nested scope redeclares the enclosing variable.
define_reusing(env, variable_name) ==
    LET visible == {i \in DOMAIN env.parent_scopes :
                        variable_name \in DOMAIN env.parent_scopes[i].bindings}
        binding_id ==
            IF variable_name \in DOMAIN env.current_scope.bindings
            THEN env.current_scope.bindings[variable_name].id
            ELSE IF visible # {}
            THEN env.parent_scopes[CHOOSE i \in visible : \A j \in visible : j <= i]
                     .bindings[variable_name].id
            ELSE env.binding_id_cursor
    IN [id |-> binding_id,
        env |-> [env EXCEPT !.binding_id_cursor = @ + 1,
                            !.current_scope =
                                Scope_define(@, variable_name, binding_id)]]

\* environment.rs 34-38: define.
define(env, variable_name) ==
    [id |-> env.binding_id_cursor,
     env |-> [env EXCEPT !.binding_id_cursor = @ + 1,
                         !.current_scope =
                             Scope_define(@, variable_name, env.binding_id_cursor)]]

\* environment.rs 47-51: the walk of assign over the parent scopes, innermost first.
RECURSIVE assign_parents(_, _, _)
assign_parents(env, variable_name, i) ==
    IF i = 0 THEN [ok |-> FALSE, id |-> 0, env |-> env] ELSE
    LET a == Scope_assign(env.parent_scopes[i], variable_name)
        env1 == [env EXCEPT !.parent_scopes[i] = a.scope]
    IN IF a.ok THEN [ok |-> TRUE, id |-> a.id, env |-> env1]
       ELSE assign_parents(env1, variable_name, i - 1)

\* environment.rs 40-55: assign.
assign(env, variable_name) ==
    LET a == Scope_assign(env.current_scope, variable_name)
        env1 == [env EXCEPT !.current_scope = a.scope]
    IN IF a.ok THEN [ok |-> TRUE, id |-> a.id, env |-> env1]
       ELSE assign_parents(env1, variable_name, Len(env.parent_scopes))

\* environment.rs 64-68: the walk of get over the parent scopes, innermost first.
RECURSIVE get_parents(_, _, _)
get_parents(env, variable_name, i) ==
    IF i = 0 THEN [ok |-> FALSE, id |-> 0, status |-> "Uninitialized", env |-> env] ELSE
    LET g == Scope_get(env.parent_scopes[i], variable_name)
        env1 == [env EXCEPT !.parent_scopes[i] = g.scope]
    IN IF g.ok THEN [ok |-> TRUE, id |-> g.id, status |-> g.status, env |-> env1]
       ELSE get_parents(env1, variable_name, i - 1)

\* environment.rs 57-70: get.
get(env, variable_name) ==
    LET g == Scope_get(env.current_scope, variable_name)
        env1 == [env EXCEPT !.current_scope = g.scope]
    IN IF g.ok THEN [ok |-> TRUE, id |-> g.id, status |-> g.status, env |-> env1]
       ELSE get_parents(env1, variable_name, Len(env.parent_scopes))

(***************************************************************************)
(* The resolver (src/resolver/resolver.rs).  A resolve function returns    *)
(* [ok, v, env]: ok = FALSE is Err, env the environment afterwards.        *)
(***************************************************************************)
RFail(env) == [ok |-> FALSE, v |-> None, env |-> env]
ROk(v, env) == [ok |-> TRUE, v |-> v, env |-> env]

\* The binding ids an expression of the resolved AST reads or assigns.
RECURSIVE expression_binding_ids(_), arguments_binding_ids(_),
          statement_binding_ids(_), statements_binding_ids(_),
          statement_declared_ids(_), statements_declared_ids(_)
expression_binding_ids(e) ==
    CASE e.k = "Binary" -> expression_binding_ids(e.left) \cup expression_binding_ids(e.right)
      [] e.k = "Unary" -> expression_binding_ids(e.operand)
      [] e.k = "Literal" -> {}
      [] e.k = "Grouping" -> expression_binding_ids(e.e)
      [] e.k = "VariableReference" -> {e.binding_id}
      [] e.k = "VariableAssignment" -> {e.binding_id} \cup expression_binding_ids(e.value)
      [] e.k = "Call" ->
            expression_binding_ids(e.callee) \cup arguments_binding_ids(e.arguments)

arguments_binding_ids(arguments) ==
    IF arguments = <<>> THEN {}
    ELSE expression_binding_ids(Head(arguments)) \cup arguments_binding_ids(Tail(arguments))

\* The binding ids a resolved statement needs from the bindings it runs in; a
\* nested function needs what it captures.
statement_binding_ids(s) ==
    CASE s.k \in {"Expression", "Print"} -> expression_binding_ids(s.e)
      [] s.k = "VariableDeclaration" ->
            IF s.initializer # None THEN expression_binding_ids(s.initializer[1]) ELSE {}
      [] s.k = "FunctionDeclaration" -> s.captured_binding_ids
      [] s.k = "Block" -> statements_binding_ids(s.statements)
      [] s.k = "IfElse" ->
            expression_binding_ids(s.condition) \cup statement_binding_ids(s.if_branch)
                \cup (IF s.else_branch # None
                      THEN statement_binding_ids(s.else_branch[1]) ELSE {})
      [] s.k = "While" ->
            expression_binding_ids(s.condition) \cup statement_binding_ids(s.body)
      [] s.k = "Return" -> expression_binding_ids(s.value)

statements_binding_ids(statements) ==
    IF statements = <<>> THEN {}
    ELSE statement_binding_ids(Head(statements))
             \cup statements_binding_ids(Tail(statements))

\* The binding ids a resolved statement declares in the bindings it runs in.
statement_declared_ids(s) ==
    CASE s.k = "VariableDeclaration" -> {s.binding_id}
      [] s.k = "FunctionDeclaration" -> {s.name_binding_id}
      [] s.k = "Block" -> statements_declared_ids(s.statements)
      [] s.k = "IfElse" ->
            statement_declared_ids(s.if_branch)
                \cup (IF s.else_branch # None
                      THEN statement_declared_ids(s.else_branch[1]) ELSE {})
      [] s.k = "While" -> statement_declared_ids(s.body)
      [] OTHER -> {}

statements_declared_ids(statements) ==
    IF statements = <<>> THEN {}
    ELSE statement_declared_ids(Head(statements))
             \cup statements_declared_ids(Tail(statements))

\* The closure capture set of a function (spec 3 and 4.3): its free variables,
\* the bindings its body uses that neither its parameters nor its body declare.
captured_binding_ids(parameters_binding_ids, body) ==
    statements_binding_ids(body)
        \ (statements_declared_ids(body)
           \cup {parameters_binding_ids[i] : i \in DOMAIN parameters_binding_ids})

RECURSIVE resolve(_, _), resolve_loop(_, _, _), resolve_statement(_, _),
          resolve_expression(_, _), resolve_parameters(_, _, _),
          resolve_arguments(_, _, _)

\* A resolve that stops at the first error and returns Ok with the
\* statements resolved before it.
RECURSIVE resolve_loop_keeping_resolved(_, _, _)
resolve_loop_keeping_resolved(env, statements, resolved_statements) ==
    IF statements = <<>> THEN ROk(resolved_statements, env) ELSE
    Bind([s \in {resolve_statement(env, Head(statements))} |->
    IF ~s.ok THEN ROk(resolved_statements, s.env)
    ELSE resolve_loop_keeping_resolved(s.env, Tail(statements),
                                       Append(resolved_statements, s.v)) ])

\* resolver.rs 27-31: the loop of resolve, which stops at the first error.
resolve_loop(env, statements, resolved_statements) ==
    IF statements = <<>> THEN ROk(resolved_statements, env) ELSE
    Bind([s \in {resolve_statement(env, Head(statements))} |->
    IF ~s.ok THEN RFail(s.env)
    ELSE resolve_loop(s.env, Tail(statements), Append(resolved_statements, s.v)) ])

resolve(env, statements) == resolve_loop(env, statements, <<>>)

\* resolver.rs 68-78: every parameter is defined and at once assigned.
resolve_parameters(env, parameters, ids) ==
    IF parameters = <<>> THEN ROk(ids, env) ELSE
    Bind([d \in {define(env, Head(parameters).lexeme)} |->
    Bind([a \in {assign(d.env, Head(parameters).lexeme)} |->
    IF ~a.ok THEN RFail(a.env)
    ELSE resolve_parameters(a.env, Tail(parameters), Append(ids, d.id)) ]) ])

\* resolver.rs 61-87: the FunctionDeclaration arm of resolve_statement.  The
\* parameters and the body are resolved in the scope of the declaration.
resolve_function_declaration(env, f) ==
    Bind([d \in {define(env, f.name.lexeme)} |->
    Bind([a \in {assign(d.env, f.name.lexeme)} |->
    IF ~a.ok THEN RFail(a.env) ELSE
    Bind([parameters \in {resolve_parameters(a.env, f.parameters, <<>>)} |->
    IF ~parameters.ok THEN RFail(parameters.env) ELSE
    Bind([body \in {resolve(parameters.env, f.body)} |->
    IF ~body.ok THEN RFail(body.env) ELSE
    ROk([k |-> "FunctionDeclaration",
         name_binding_id |-> d.id,
         parameters_binding_ids |-> parameters.v,
         body |-> body.v,
         captured_binding_ids |-> captured_binding_ids(parameters.v, body.v)],
        body.env) ]) ]) ]) ])

\* The VariableDeclaration arm with the initializer resolved before the name
\* is defined.
resolve_variable_declaration_initializer_first(env, v) ==
    IF v.initializer = None
    THEN Bind([d \in {define(env, v.identifier.lexeme)} |->
         ROk([k |-> "VariableDeclaration", initializer |-> None, binding_id |-> d.id],
             d.env) ])
    ELSE
    Bind([initializer \in {resolve_expression(env, v.initializer[1])} |->
    IF ~initializer.ok THEN RFail(initializer.env) ELSE
    Bind([d \in {define(initializer.env, v.identifier.lexeme)} |->
    Bind([a \in {assign(d.env, v.identifier.lexeme)} |->
    IF ~a.ok THEN RFail(a.env) ELSE
    ROk([k |-> "VariableDeclaration", initializer |-> Some(initializer.v),
         binding_id |-> d.id],
        a.env) ]) ]) ])

\* resolver.rs 40-54: the VariableDeclaration arm of resolve_statement.
resolve_variable_declaration(env, v) ==
    Bind([d \in {define(env, v.identifier.lexeme)} |->
    IF v.initializer = None
    THEN ROk([k |-> "VariableDeclaration", initializer |-> None, binding_id |-> d.id],
             d.env)
    ELSE
    Bind([initializer \in {resolve_expression(d.env, v.initializer[1])} |->
    IF ~initializer.ok THEN RFail(initializer.env) ELSE
    Bind([a \in {assign(initializer.env, v.identifier.lexeme)} |->
    IF ~a.ok THEN RFail(a.env) ELSE
    ROk([k |-> "VariableDeclaration", initializer |-> Some(initializer.v),
         binding_id |-> d.id],
        a.env) ]) ]) ])

\* The Block arm that returns an Err of its statements at once, inside the
\* scope it entered.
resolve_block_returning_early(env, b) ==
    Bind([outcome \in {resolve(enter_scope(env), b.statements)} |->
    IF ~outcome.ok THEN RFail(outcome.env)
    ELSE ROk(BlockStatement(outcome.v), exit_scope(outcome.env).env) ])

\* resolver.rs 88-93: the Block arm; the scope is left on Ok and on Err alike.
resolve_block(env, b) ==
    Bind([outcome \in {resolve(enter_scope(env), b.statements)} |->
    Bind([left \in {exit_scope(outcome.env).env} |->
    IF ~outcome.ok THEN RFail(left) ELSE ROk(BlockStatement(outcome.v), left) ]) ])

resolve_statement(env, s) ==
    CASE s.k = "VariableDeclaration" -> resolve_variable_declaration(env, s)
      [] s.k = "Expression" ->
            Bind([e \in {resolve_expression(env, s.e)} |->
            IF ~e.ok THEN e ELSE ROk(ExpressionStatement(e.v), e.env) ])
      [] s.k = "Print" ->
            Bind([e \in {resolve_expression(env, s.e)} |->
            IF ~e.ok THEN e ELSE ROk(PrintStatement(e.v), e.env) ])
      [] s.k = "FunctionDeclaration" -> resolve_function_declaration(env, s)
      [] s.k = "Block" -> resolve_block(env, s)
      [] s.k = "IfElse" ->
            Bind([condition \in {resolve_expression(env, s.condition)} |->
            IF ~condition.ok THEN condition ELSE
            Bind([if_branch \in {resolve_statement(condition.env, s.if_branch)} |->
            IF ~if_branch.ok THEN if_branch ELSE
            IF s.else_branch = None
            THEN ROk(IfElseStatement(condition.v, if_branch.v, None), if_branch.env)
            ELSE
            Bind([else_branch \in
                     {resolve_statement(if_branch.env, s.else_branch[1])} |->
            IF ~else_branch.ok THEN else_branch ELSE
            ROk(IfElseStatement(condition.v, if_branch.v, Some(else_branch.v)),
                else_branch.env) ]) ]) ])
      [] s.k = "While" ->
            Bind([condition \in {resolve_expression(env, s.condition)} |->
            IF ~condition.ok THEN condition ELSE
            Bind([body \in {resolve_statement(condition.env, s.body)} |->
            IF ~body.ok THEN body ELSE
            ROk(WhileStatement(condition.v, body.v), body.env) ]) ])
      [] s.k = "Return" ->
            Bind([value \in {resolve_expression(env, s.value)} |->
            IF ~value.ok THEN value ELSE
            ROk(ReturnStatement(s.keyword, value.v), value.env) ])

\* resolver.rs 175-181: every argument is resolved, left to right.
resolve_arguments(env, arguments, resolved) ==
    IF arguments = <<>> THEN ROk(resolved, env) ELSE
    Bind([a \in {resolve_expression(env, Head(arguments))} |->
    IF ~a.ok THEN a
    ELSE resolve_arguments(a.env, Tail(arguments), Append(resolved, a.v)) ])

\* resolver.rs 158-166: the VariableReference arm of resolve_expression.
resolve_variable_reference(env, v) ==
    Bind([g \in {get(env, v.identifier.lexeme)} |->
    IF ~g.ok THEN RFail(g.env) ELSE
    IF g.status = "Uninitialized" THEN RFail(g.env) ELSE
    ROk([k |-> "VariableReference", binding_id |-> g.id], g.env) ])

resolve_expression(env, expr) ==
    CASE expr.k = "Binary" ->
            Bind([left \in {resolve_expression(env, expr.left)} |->
            IF ~left.ok THEN left ELSE
            Bind([right \in {resolve_expression(left.env, expr.right)} |->
            IF ~right.ok THEN right ELSE
            ROk(Expression_binary(left.v, expr.operator, right.v), right.env) ]) ])
      [] expr.k = "Unary" ->
            Bind([operand \in {resolve_expression(env, expr.operand)} |->
            IF ~operand.ok THEN operand ELSE
            ROk(Expression_unary(expr.operator, operand.v), operand.env) ])
      [] expr.k = "Literal" -> ROk(expr, env)
      [] expr.k = "Grouping" ->
            Bind([e \in {resolve_expression(env, expr.e)} |->
            IF ~e.ok THEN e ELSE ROk(Expression_grouping(e.v), e.env) ])
      [] expr.k = "VariableReference" -> resolve_variable_reference(env, expr)
      [] expr.k = "VariableAssignment" ->
            Bind([value \in {resolve_expression(env, expr.value)} |->
            IF ~value.ok THEN value ELSE
            Bind([a \in {assign(value.env, expr.identifier.lexeme)} |->
            IF ~a.ok THEN RFail(a.env) ELSE
            ROk([k |-> "VariableAssignment", binding_id |-> a.id, value |-> value.v],
                a.env) ]) ])
      [] expr.k = "Call" ->
            Bind([callee \in {resolve_expression(env, expr.callee)} |->
            IF ~callee.ok THEN callee ELSE
            Bind([arguments \in
                     {resolve_arguments(callee.env, expr.arguments, <<>>)} |->
            IF ~arguments.ok THEN arguments ELSE
            ROk(Expression_call(callee.v, expr.closing_parenthesis, arguments.v),
                arguments.env) ]) ])

(***************************************************************************)
(* Runtime values (src/r_interpreter/lox_value.rs).  A Function value is a *)
(* handle f into the table of Function objects (Rc<RefCell<Function>>).    *)
(***************************************************************************)
LoxValue(t, n, s, b, f) == [t |-> t, n |-> n, s |-> s, b |-> b, f |-> f]
LoxBoolean(b) == LoxValue("Boolean", 0, "", b, 0)
LoxNull == LoxValue("Null", 0, "", FALSE, 0)
LoxString(s) == LoxValue("String", 0, s, FALSE, 0)
LoxNumber(n) == LoxValue("Number", n, "", FALSE, 0)
LoxFunction(f) == LoxValue("Function", 0, "", FALSE, f)

\* lox_value.rs 18-26.
is_truthy(v) ==
    IF v.t = "Null" THEN FALSE
    ELSE IF v.t = "Boolean" THEN v.b
    ELSE TRUE

\* lox_value.rs 28-36.
is_equal(v, other) ==
    CASE v.t = "Null" /\ other.t = "Null" -> TRUE
      [] v.t = "String" /\ other.t = "String" -> v.s = other.s
      [] v.t = "Boolean" /\ other.t = "Boolean" -> v.b = other.b
      [] v.t = "Number" /\ other.t = "Number" -> v.n = other.n /\ v.s = other.s
      [] OTHER -> FALSE

(***************************************************************************)
(* The interpreter (src/r_interpreter/tree_walker.rs).  Its state st is    *)
(*   bindings  : BindingId -> address of a cell   (HashMap<BindingId, Rc>) *)
(*   cells     : the cells, by address            (Rc<RefCell<LoxValue>>)  *)
(*   functions : the Function objects, by handle                           *)
(*   output    : the lines written to the output stream.                   *)
(* eval returns [ctl, v, msg, st] with ctl "ok" (Ok(v)), "error"           *)
(* (Err(RuntimeError{msg})) or "panic" (an expect/unwrap that failed);     *)
(* _execute may also return ctl "return" (Err(Return(v))).                 *)
(***************************************************************************)
\* tree_walker.rs 23-31: Interpreter::new.
Interpreter_new ==
    [bindings |-> EmptyMap, cells |-> <<>>, functions |-> <<>>, output |-> <<>>]

EOk(v, st) == [ctl |-> "ok", v |-> v, msg |-> "", st |-> st]
EErr(msg, st) == [ctl |-> "error", v |-> LoxNull, msg |-> msg, st |-> st]
EReturn(v, st) == [ctl |-> "return", v |-> v, msg |-> "", st |-> st]
EPanic(st) == [ctl |-> "panic", v |-> LoxNull, msg |-> "", st |-> st]

\* lox_value.rs 39-48 and 57-62: Display of a value.
Display(v) ==
    CASE v.t = "Boolean" -> IF v.b THEN "true" ELSE "false"
      [] v.t = "Null" -> "'nil'"
      [] v.t = "String" -> v.s
      [] v.t = "Number" -> ToString(v.n) \o v.s
      [] v.t = "Function" -> "<fn Predetermined(" \o ToString(v.n) \o ")>"

\* Rc::new(RefCell::new(value)): a fresh cell.
new_cell(st, value) == [st EXCEPT !.cells = Append(@, value)]

\* tree_walker.rs 360-365.
arity_mismatch(expected, found) ==
    "Expect " \o ToString(expected) \o " arguments, but got " \o ToString(found)
        \o " arguments."

\* tree_walker.rs 367-372.
not_callable(v) == "'" \o Display(v) \o "' is not callable."

\* tree_walker.rs 374-379.
unexpected_return == "'return' was used in an illegal position"

\* tree_walker.rs 283-296: num_op; result is operation(l, r).
num_op(left, right, result) ==
    IF left.t = "Number" /\ right.t = "Number"
    THEN [ctl |-> "ok", v |-> result, msg |-> ""]
    ELSE [ctl |-> "error", v |-> LoxNull, msg |-> "Operands must be numbers"]

\* A `+` that turns a Number into its text when the other operand is a String.
plus_coercing(left, right) ==
    CASE left.t = "Number" /\ right.t = "Number" ->
            [ctl |-> "ok", v |-> LoxNumber(left.n + right.n), msg |-> ""]
      [] left.t = "String" /\ right.t = "String" ->
            [ctl |-> "ok", v |-> LoxString(left.s \o right.s), msg |-> ""]
      [] left.t = "Number" /\ right.t = "String" ->
            [ctl |-> "ok", v |-> LoxString(ToString(left.n) \o right.s), msg |-> ""]
      [] left.t = "String" /\ right.t = "Number" ->
            [ctl |-> "ok", v |-> LoxString(left.s \o ToString(right.n)), msg |-> ""]
      [] OTHER ->
            [ctl |-> "error", v |-> LoxNull,
             msg |-> "'+' operands must either be both numbers or both strings"]

\* tree_walker.rs 174-182: the Plus arm.
plus(left, right) ==
    CASE left.t = "Number" /\ right.t = "Number" ->
            [ctl |-> "ok", v |-> LoxNumber(left.n + right.n), msg |-> ""]
      [] left.t = "String" /\ right.t = "String" ->
            [ctl |-> "ok", v |-> LoxString(left.s \o right.s), msg |-> ""]
      [] OTHER ->
            [ctl |-> "error", v |-> LoxNull,
             msg |-> "'+' operands must either be both numbers or both strings"]

\* l / r on f64, exact on the integers where r divides l; any other quotient
\* is a Number that no integer equals.
quotient(l, r) ==
    IF r # 0 /\ l % r = 0 THEN LoxNumber(l \div r)
    ELSE LoxValue("Number", 0, "/", FALSE, 0)

\* tree_walker.rs 170-206: the operators that evaluate both operands.
binary_operator(operator, left, right) ==
    CASE operator.ty = "Minus" -> num_op(left, right, LoxNumber(left.n - right.n))
      [] operator.ty = "Plus" -> plus(left, right)
      [] operator.ty = "Slash" -> num_op(left, right, quotient(left.n, right.n))
      [] operator.ty = "Star" -> num_op(left, right, LoxNumber(left.n * right.n))
      [] operator.ty = "GreaterEqual" ->
            num_op(left, right, LoxBoolean(left.n > right.n))
      [] operator.ty = "Greater" ->
            num_op(left, right, LoxBoolean(left.n >= right.n))
      [] operator.ty = "Less" -> num_op(left, right, LoxBoolean(left.n < right.n))
      [] operator.ty = "LessEqual" ->
            num_op(left, right, LoxBoolean(left.n <= right.n))
      [] operator.ty = "EqualEqual" ->
            [ctl |-> "ok", v |-> LoxBoolean(is_equal(left, right)), msg |-> ""]
      [] operator.ty = "BangEqual" ->
            [ctl |-> "ok", v |-> LoxBoolean(~is_equal(left, right)), msg |-> ""]
      [] OTHER ->
            [ctl |-> "error", v |-> LoxNull, msg |-> "It is not a valid binary operator"]

\* Logic operators that always evaluate their right operand.
short_circuits_never(operator, left) == FALSE

\* tree_walker.rs 154-167: whether the left operand alone decides `or` / `and`.
short_circuits(operator, left) ==
    IF operator.ty = "Or" THEN is_truthy(left)
    ELSE IF operator.ty = "And" THEN ~is_truthy(left)
    ELSE FALSE

\* tree_walker.rs 208-223: the Unary arm, on the operand's value.
unary_operator(operator, value) ==
    CASE operator.ty = "Minus" ->
            IF value.t = "Number"
            THEN [ctl |-> "ok", v |-> LoxValue("Number", -value.n, value.s, FALSE, 0),
                  msg |-> ""]
            ELSE [ctl |-> "error", v |-> LoxNull, msg |-> "Operand must be a number"]
      [] operator.ty = "Bang" ->
            [ctl |-> "ok", v |-> LoxBoolean(~is_truthy(value)), msg |-> ""]
      [] OTHER ->
            [ctl |-> "error", v |-> LoxNull,
             msg |-> "'!' and '-' are the only valid unary operators"]

\* tree_walker.rs 224-237: the Literal arm.
literal(l) ==
    CASE l.ty = "Boolean" -> LoxBoolean(l.b)
      [] l.ty = "Null" -> LoxNull
      [] l.ty = "String" -> LoxString(l.t.str)
      [] l.ty = "Number" ->
            IF l.t.str = "" THEN LoxNumber(l.t.num)
            ELSE LoxValue("Number", l.t.num, l.t.str, FALSE, 0)

\* tree_walker.rs 239-245: the VariableReference arm.
variable_reference(st, binding_id) ==
    IF binding_id \in DOMAIN st.bindings
    THEN EOk(st.cells[st.bindings[binding_id]], st)
    ELSE EPanic(st)

\* An assignment that always binds the id to a fresh cell, whether the id has
\* a cell or not.
variable_assignment_fresh_cell(st, binding_id, value) ==
    [new_cell(st, value) EXCEPT
         !.bindings = (binding_id :> (Len(st.cells) + 1)) @@ @]

\* tree_walker.rs 248-250: the VariableAssignment arm writes through the cell
\* of the binding, or inserts a fresh cell when the binding is absent.
variable_assignment(st, binding_id, value) ==
    IF binding_id \in DOMAIN st.bindings
    THEN [st EXCEPT !.cells[st.bindings[binding_id]] = value]
    ELSE [new_cell(st, value) EXCEPT
              !.bindings = (binding_id :> (Len(st.cells) + 1)) @@ @]

\* tree_walker.rs 85-86: the VariableDeclaration arm inserts a fresh cell.
variable_declaration(st, binding_id, value) ==
    [new_cell(st, value) EXCEPT !.bindings = (binding_id :> (Len(st.cells) + 1)) @@ @]

\* A function declaration that captures no cell.
captured_environment_empty(bindings, ids) == EmptyMap

\* tree_walker.rs 120-134: the captured environment holds, for every captured
\* binding id, the cell the current bindings hold for it.
captured_environment(bindings, ids) == [id \in ids |-> bindings[id]]

\* The FunctionDeclaration arm that collects the captured cells before it
\* inserts the function under its own binding id.
function_declaration_capturing_first(st, statement_) ==
    IF statement_.captured_binding_ids \subseteq DOMAIN st.bindings
    THEN EOk(LoxNull,
             [new_cell(st, [LoxFunction(Len(st.functions) + 1) EXCEPT
                                !.n = statement_.name_binding_id]) EXCEPT
                 !.functions = Append(@, [definition |-> statement_,
                                          captured_environment |->
                                              captured_environment(st.bindings,
                                                  statement_.captured_binding_ids)]),
                 !.bindings = (statement_.name_binding_id :> (Len(st.cells) + 1)) @@ @])
    ELSE EPanic(st)

\* tree_walker.rs 109-135: the FunctionDeclaration arm.
function_declaration(st, statement_) ==
    Bind([st1 \in
             {[new_cell(st, [LoxFunction(Len(st.functions) + 1) EXCEPT
                                 !.n = statement_.name_binding_id]) EXCEPT
                  !.functions = Append(@, [definition |-> statement_,
                                           captured_environment |-> EmptyMap]),
                  !.bindings = (statement_.name_binding_id :> (Len(st.cells) + 1)) @@ @]}
    |->
    IF statement_.captured_binding_ids \subseteq DOMAIN st1.bindings
    THEN EOk(LoxNull,
             [st1 EXCEPT !.functions[Len(st.functions) + 1].captured_environment =
                 captured_environment(st1.bindings, statement_.captured_binding_ids)])
    ELSE EPanic(st1) ])

\* lox_callable.rs 18-21: arity, as u8.
arity(f) == Len(f.definition.parameters_binding_ids) % 256

\* An arity check that only rejects a call with too few arguments.
check_arity_too_few(f, arguments) ==
    IF arity(f) > Len(arguments) % 256
    THEN Some(arity_mismatch(arity(f), Len(arguments) % 256))
    ELSE None

\* tree_walker.rs 263-269: the arity check of a call; None when it passes.
check_arity(f, arguments) ==
    IF arity(f) # Len(arguments) % 256
    THEN Some(arity_mismatch(arity(f), Len(arguments) % 256))
    ELSE None

\* lox_callable.rs 29-38: the function-local bindings of a call: a fresh cell
\* per parameter zipped with an argument, then the captured cells.
function_local_bindings(st, f, arguments) ==
    LET n == IF Len(arguments) < Len(f.definition.parameters_binding_ids)
             THEN Len(arguments) ELSE Len(f.definition.parameters_binding_ids)
        parameters == [id \in {f.definition.parameters_binding_ids[i] : i \in 1..n} |->
                          Len(st.cells) +
                          (CHOOSE i \in 1..n :
                               /\ f.definition.parameters_binding_ids[i] = id
                               /\ \A j \in (i + 1)..n :
                                      f.definition.parameters_binding_ids[j] # id)]
    IN [cells |-> st.cells \o [i \in 1..n |-> arguments[i]],
        bindings |-> f.captured_environment @@ parameters]

RECURSIVE eval(_, _), eval_arguments(_, _, _), Function_call(_, _, _),
          execute_body(_, _), _execute(_, _), execute_while(_, _)

\* The result r of an operator on values, in the interpreter state st.
in_state(r, st) == [ctl |-> r.ctl, v |-> r.v, msg |-> r.msg, st |-> st]

\* tree_walker.rs 260-276: the call of the value callee.
call_value(st, callee, arguments) ==
    IF callee.t # "Function" THEN EErr(not_callable(callee), st) ELSE
    Bind([mismatch \in {check_arity(st.functions[callee.f], arguments)} |->
    IF mismatch # None THEN EErr(mismatch[1], st)
    ELSE Function_call(st, st.functions[callee.f], arguments) ])

\* tree_walker.rs 144-279: Interpreter::eval.
eval(st, e) ==
    CASE e.k = "Binary" ->
            Bind([left \in {eval(st, e.left)} |->
            IF left.ctl # "ok" THEN left ELSE
            IF e.operator.ty \in {"Or", "And"} THEN
                IF short_circuits(e.operator, left.v) THEN left
                ELSE eval(left.st, e.right)
            ELSE
            Bind([right \in {eval(left.st, e.right)} |->
            IF right.ctl # "ok" THEN right ELSE
            in_state(binary_operator(e.operator, left.v, right.v), right.st) ]) ])
      [] e.k = "Unary" ->
            Bind([value \in {eval(st, e.operand)} |->
            IF value.ctl # "ok" THEN value ELSE
            in_state(unary_operator(e.operator, value.v), value.st) ])
      [] e.k = "Literal" -> EOk(literal(e), st)
      [] e.k = "Grouping" -> eval(st, e.e)
      [] e.k = "VariableReference" -> variable_reference(st, e.binding_id)
      [] e.k = "VariableAssignment" ->
            Bind([value \in {eval(st, e.value)} |->
            IF value.ctl # "ok" THEN value ELSE
            EOk(value.v, variable_assignment(value.st, e.binding_id, value.v)) ])
      [] e.k = "Call" ->
            Bind([callee \in {eval(st, e.callee)} |->
            IF callee.ctl # "ok" THEN callee ELSE
            Bind([arguments \in {eval_arguments(callee.st, e.arguments, <<>>)} |->
            IF arguments.ctl # "ok" THEN arguments ELSE
            call_value(arguments.st, callee.v, arguments.v) ]) ])

\* The arguments evaluated from the last to the first.
RECURSIVE eval_arguments_right_to_left(_, _, _)
eval_arguments_right_to_left(st, arguments, values) ==
    IF arguments = <<>> THEN [ctl |-> "ok", v |-> values, msg |-> "", st |-> st] ELSE
    Bind([a \in {eval(st, arguments[Len(arguments)])} |->
    IF a.ctl # "ok" THEN a
    ELSE eval_arguments_right_to_left(a.st, SubSeq(arguments, 1, Len(arguments) - 1),
                                      <<a.v>> \o values) ])

\* tree_walker.rs 255-259: the arguments, left to right, up to the first Err.
eval_arguments(st, arguments, values) ==
    IF arguments = <<>> THEN [ctl |-> "ok", v |-> values, msg |-> "", st |-> st] ELSE
    Bind([a \in {eval(st, Head(arguments))} |->
    IF a.ctl # "ok" THEN a
    ELSE eval_arguments(a.st, Tail(arguments), Append(values, a.v)) ])

\* lox_callable.rs 40-49: the statements of a body, up to the first Err.
execute_body(st, statements) ==
    IF statements = <<>> THEN EOk(LoxNull, st) ELSE
    Bind([s \in {_execute(st, Head(statements))} |->
    IF s.ctl # "ok" THEN s ELSE execute_body(s.st, Tail(statements)) ])

\* Function::call that leaves the function-local bindings mounted when the
\* body fails.
Function_call_leaking(st, f, arguments) ==
    Bind([local \in {function_local_bindings(st, f, arguments)} |->
    Bind([body \in {execute_body([st EXCEPT !.cells = local.cells,
                                            !.bindings = local.bindings],
                                 f.definition.body)} |->
    Bind([restored \in {[body.st EXCEPT !.bindings = st.bindings]} |->
    CASE body.ctl = "error" -> EErr(body.msg, body.st)
      [] body.ctl = "return" -> EOk(body.v, restored)
      [] body.ctl = "panic" -> EPanic(body.st)
      [] body.ctl = "ok" -> EOk(LoxNull, restored) ]) ]) ])

\* lox_callable.rs 24-54: Function::call.  The function-local bindings are
\* mounted on the interpreter, and the previous bindings restored on every
\* way out of the body.
Function_call(st, f, arguments) ==
    Bind([local \in {function_local_bindings(st, f, arguments)} |->
    Bind([body \in {execute_body([st EXCEPT !.cells = local.cells,
                                            !.bindings = local.bindings],
                                 f.definition.body)} |->
    Bind([restored \in {[body.st EXCEPT !.bindings = st.bindings]} |->
    CASE body.ctl = "error" -> EErr(body.msg, restored)
      [] body.ctl = "return" -> EOk(body.v, restored)
      [] body.ctl = "panic" -> EPanic(body.st)
      [] body.ctl = "ok" -> EOk(LoxNull, restored) ]) ]) ])

\* tree_walker.rs 104-108: the While arm.
execute_while(st, s) ==
    Bind([condition \in {eval(st, s.condition)} |->
    IF condition.ctl # "ok" THEN condition ELSE
    IF ~is_truthy(condition.v) THEN EOk(LoxNull, condition.st) ELSE
    Bind([body \in {_execute(condition.st, s.body)} |->
    IF body.ctl # "ok" THEN body ELSE execute_while(body.st, s) ]) ])

\* tree_walker.rs 65-142: Interpreter::_execute.
_execute(st, s) ==
    CASE s.k = "Expression" ->
            Bind([value \in {eval(st, s.e)} |->
            IF value.ctl # "ok" THEN value ELSE EOk(LoxNull, value.st) ])
      [] s.k = "Print" ->
            Bind([value \in {eval(st, s.e)} |->
            IF value.ctl # "ok" THEN value ELSE
            EOk(LoxNull, [value.st EXCEPT !.output = Append(@, Display(value.v))]) ])
      [] s.k = "VariableDeclaration" ->
            Bind([value \in {IF s.initializer # None THEN eval(st, s.initializer[1])
                             ELSE EOk(LoxNull, st)} |->
            IF value.ctl # "ok" THEN value ELSE
            EOk(LoxNull, variable_declaration(value.st, s.binding_id, value.v)) ])
      [] s.k = "Block" -> execute_body(st, s.statements)
      [] s.k = "IfElse" ->
            Bind([condition \in {eval(st, s.condition)} |->
            IF condition.ctl # "ok" THEN condition ELSE
            IF is_truthy(condition.v) THEN _execute(condition.st, s.if_branch)
            ELSE IF s.else_branch # None
            THEN _execute(condition.st, s.else_branch[1])
            ELSE EOk(LoxNull, condition.st) ])
      [] s.k = "While" -> execute_while(st, s)
      [] s.k = "FunctionDeclaration" -> function_declaration(st, s)
      [] s.k = "Return" ->
            Bind([value \in {eval(st, s.value)} |->
            IF value.ctl # "ok" THEN value ELSE EReturn(value.v, value.st) ])

\* Interpreter::execute that lets a Return carrier through as success.
execute_passing_return(st, s) ==
    Bind([r \in {_execute(st, s)} |->
    IF r.ctl = "return" THEN EOk(r.v, r.st) ELSE r ])

\* tree_walker.rs 58-63: Interpreter::execute turns an escaping Return into
\* a RuntimeError.
execute(st, s) ==
    Bind([r \in {_execute(st, s)} |->
    IF r.ctl = "return" THEN EErr(unexpected_return, r.st) ELSE r ])

(***************************************************************************)
(* The source units.  A unit is handed to execute_raw as the tokens of its *)
(* text (level "tokens"), or enters at Resolver::resolve as the statements  *)
(* of the parser's AST (level "ast").  n and m are the numbers, left and    *)
(* right the operand values, shape the options its family is built from.    *)
(***************************************************************************)
MaxCalls == 3
MaxDepth == 3
MaxArity == 2
MaxNumber == 2
MaxIterations == 2
MaxSourceLength == 3
MaxTokens == 3

Unit(family, level, program, n, m, left, right, shape) ==
    [family |-> family, level |-> level, program |-> program, n |-> n, m |-> m,
     left |-> left, right |-> right, shape |-> shape]

\* scanner.rs 49-166: the tokens of a text without literals, from its lexemes.
Tokens(lexemes) == [i \in DOMAIN lexemes |-> K(lexemes[i])]

\* k copies of a sequence, one after the other.
Repeat(s, k) == [i \in 1..(k * Len(s)) |-> s[((i - 1) % Len(s)) + 1]]

\* The values an operand of a unit evaluates to: every variant of LoxValue.
Operands ==
    {LoxNumber(i) : i \in 0..MaxNumber}
        \cup {LoxString(""), LoxString("a")}
        \cup {LoxBoolean(TRUE), LoxBoolean(FALSE), LoxNull, LoxFunction(1)}

\* The tokens of the expression that evaluates to an operand value; the
\* Function operand is the function f that the unit declares first.
operand_tokens(v) ==
    CASE v.t = "Number" -> <<Num(v.n)>>
      [] v.t = "String" -> <<Str(v.s)>>
      [] v.t = "Boolean" -> Tokens(<<IF v.b THEN "true" ELSE "false">>)
      [] v.t = "Null" -> Tokens(<<"nil">>)
      [] v.t = "Function" -> Tokens(<<"f">>)

declare_f == Tokens(<<"fun", "f", "(", ")", "{", "}">>)

\* tests/interpreter/functions.rs 66-86 (local_function), with k calls of the
\* counter.  makeCounter hands count out through the global counter.
CounterTokens(k) ==
    Unit("counter", "tokens",
         Tokens(<<"var", "counter", ";",
                  "fun", "makeCounter", "(", ")", "{", "var", "i", "=">>)
             \o <<Num(0)>>
             \o Tokens(<<";", "fun", "count", "(", ")", "{", "i", "=", "i", "+">>)
             \o <<Num(1)>>
             \o Tokens(<<";", "print", "i", ";", "}", "counter", "=", "count", ";", "}",
                         "makeCounter", "(", ")", ";">>)
             \o Repeat(Tokens(<<"counter", "(", ")", ";">>), k),
         k, 0, LoxNull, LoxNull, <<"assign">>)

call_statement(name, arguments) ==
    ExpressionStatement(
        Expression_call(Expression_variable_reference(K(name)), K(")"), arguments))

\* tests/interpreter/functions.rs 66-86 (local_function), with k calls of the
\* counter.  makeCounter returns count.
CounterAst(k) ==
    Unit("counter", "ast",
         << FunctionDeclarationStatement(K("makeCounter"), <<>>,
              << VariableDeclarationStatement(K("i"), Some(Expression_number(Num(0)))),
                 FunctionDeclarationStatement(K("count"), <<>>,
                   << ExpressionStatement(
                        Expression_variable_assignment(K("i"),
                          Expression_binary(Expression_variable_reference(K("i")),
                                            K("+"), Expression_number(Num(1))))),
                      PrintStatement(Expression_variable_reference(K("i"))) >>),
                 ReturnStatement(K("return"),
                                 Expression_variable_reference(K("count"))) >>),
            VariableDeclarationStatement(K("counter"),
              Some(Expression_call(Expression_variable_reference(K("makeCounter")),
                                   K(")"), <<>>))) >>
             \o [i \in 1..k |-> call_statement("counter", <<>>)],
         k, 0, LoxNull, LoxNull, <<"return">>)

\* tests/interpreter/functions.rs 28-45 (closure_capture_works_as_expected),
\* with n calls of showA before and m calls after the second declaration.
CaptureTokens(n, m) ==
    Unit("capture", "tokens",
         Tokens(<<"var", "a", "=">>) \o <<Str("global")>>
             \o Tokens(<<";", "{", "fun", "showA", "(", ")", "{", "print", "a", ";", "}">>)
             \o Repeat(Tokens(<<"showA", "(", ")", ";">>), n)
             \o Tokens(<<"var", "a", "=">>) \o <<Str("block")>> \o Tokens(<<";">>)
             \o Repeat(Tokens(<<"showA", "(", ")", ";">>), m)
             \o Tokens(<<"}">>),
         n, m, LoxNull, LoxNull, <<>>)

\* tests/interpreter/scopes.rs 4-37 (lexical_scopes_are_interpreted_correctly):
\* the block of depth j of d nested blocks.  Every block declares its own a,
\* assigns to it when shape says so, and reads a and the global b before and
\* after the block nested in it.
RECURSIVE ShadowBlock(_, _, _)
ShadowBlock(j, d, assigns) ==
    IF j > d THEN <<>> ELSE
    Tokens(<<"{", "var", "a", "=">>) \o <<Num(j)>> \o Tokens(<<";">>)
        \o (IF assigns
            THEN Tokens(<<"a", "=", "a", "+">>) \o <<Num(10)>> \o Tokens(<<";">>)
            ELSE <<>>)
        \o Tokens(<<"print", "a", ";", "print", "b", ";">>)
        \o ShadowBlock(j + 1, d, assigns)
        \o Tokens(<<"print", "a", ";", "print", "b", ";", "}">>)

ShadowTokens(d, assigns) ==
    Unit("shadow", "tokens",
         Tokens(<<"var", "a", "=">>) \o <<Num(0)>>
             \o Tokens(<<";", "var", "b", "=">>) \o <<Str("global b")>> \o Tokens(<<";">>)
             \o ShadowBlock(1, d, assigns)
             \o Tokens(<<"print", "a", ";", "print", "b", ";">>),
         d, 0, LoxNull, LoxNull, <<IF assigns THEN "assign" ELSE "declare">>)

\* tests/interpreter/functions.rs 17-26 (function_scope_does_not_leak): a
\* read, outside f, of the parameter p or of the variable c of the body of f,
\* after n calls of f.
LeakTokens(n, name) ==
    Unit("leak", "tokens",
         Tokens(<<"fun", "f", "(", "p", ")", "{", "var", "c", "=">>) \o <<Num(1)>>
             \o Tokens(<<";", "}">>)
             \o Repeat(Tokens(<<"f", "(">>) \o <<Num(0)>> \o Tokens(<<")", ";">>), n)
             \o Tokens(<<"print", name, ";">>),
         n, 0, LoxNull, LoxNull, <<name>>)

\* Reads of the name zz, which no scope enclosing the read has declared: at
\* the top level, after the block that declared it, before its declaration,
\* in the body of a function that is never called, in an initializer.
UndeclaredTokens(position) ==
    Unit("undeclared", "tokens",
         CASE position = "top" -> Tokens(<<"print", "zz", ";">>)
           [] position = "after block" ->
                 Tokens(<<"{", "var", "zz", "=">>) \o <<Num(1)>>
                     \o Tokens(<<";", "}", "print", "zz", ";">>)
           [] position = "before declaration" ->
                 Tokens(<<"print", "zz", ";", "var", "zz", "=">>) \o <<Num(1)>>
                     \o Tokens(<<";">>)
           [] position = "function body" ->
                 Tokens(<<"fun", "g", "(", ")", "{", "print", "zz", ";", "}">>)
           [] position = "initializer" ->
                 Tokens(<<"var", "a", "=", "zz", "+">>) \o <<Num(1)>> \o Tokens(<<";">>),
         0, 0, LoxNull, LoxNull, <<position>>)

Positions ==
    {"top", "after block", "before declaration", "function body", "initializer"}

parameter_name(i) == "p" \o ToString(i)

\* A function of n parameters, whose body prints, called with m arguments.
ArityAst(n, m) ==
    Unit("arity", "ast",
         << FunctionDeclarationStatement(K("f"),
              [i \in 1..n |-> K(parameter_name(i))],
              << PrintStatement(Expression_string(Str("body"))) >>),
            call_statement("f", [i \in 1..m |-> Expression_number(Num(i))]) >>,
         n, m, LoxNull, LoxNull, <<>>)

\* The same unit as text, for the lists the parser accepts: one element at most.
ArityTokens(n, m) ==
    Unit("arity", "tokens",
         Tokens(<<"fun", "f", "(">>)
             \o (IF n = 1 THEN Tokens(<<parameter_name(1)>>) ELSE <<>>)
             \o Tokens(<<")", "{", "print">>) \o <<Str("body")>>
             \o Tokens(<<";", "}", "f", "(">>)
             \o (IF m = 1 THEN <<Num(1)>> ELSE <<>>)
             \o Tokens(<<")", ";">>),
         n, m, LoxNull, LoxNull, <<>>)

\* parser/mod.rs 85-92 and 351-358: a declaration with n comma-separated
\* parameters whose body prints each of them in turn, a call with n
\* comma-separated arguments 1 .. n, or both.
ListTokens(n, shape) ==
    Unit("lists", "tokens",
         (IF shape = <<"call">> THEN <<>>
          ELSE Tokens(<<"fun", "f", "(">>)
                   \o [i \in 1..(2 * n - 1) |->
                          IF i % 2 = 1 THEN K(parameter_name((i + 1) \div 2))
                                       ELSE K(",")]
                   \o Tokens(<<")", "{">>)
                   \o [i \in 1..(3 * n) |->
                          CASE i % 3 = 1 -> K("print")
                            [] i % 3 = 2 -> K(parameter_name((i + 1) \div 3))
                            [] i % 3 = 0 -> K(";")]
                   \o Tokens(<<"}">>))
             \o (IF shape = <<"declaration">> THEN <<>>
                 ELSE Tokens(<<"f", "(">>)
                          \o [i \in 1..(2 * n - 1) |->
                                 IF i % 2 = 1 THEN Num((i + 1) \div 2) ELSE K(",")]
                          \o Tokens(<<")", ";">>)),
         n, n, LoxNull, LoxNull, shape)

\* print left + right;
PlusTokens(l, r) ==
    Unit("plus", "tokens",
         declare_f \o Tokens(<<"print">>) \o operand_tokens(l) \o Tokens(<<"+">>)
             \o operand_tokens(r) \o Tokens(<<";">>),
         0, 0, l, r, <<"+">>)

\* The statements inner inside k nested statements of a function body, in
\* turn a block, a while (true) loop and an if (true); each of them is
\* followed by a print.  As tokens, or as the statements parser/mod.rs
\* 180-223 builds from them.
RECURSIVE ExitNest(_, _, _)
ExitNest(level, k, inner) ==
    IF k = 0 THEN inner
    ELSE IF level = "tokens"
    THEN (CASE k % 3 = 1 -> <<>>
            [] k % 3 = 2 -> Tokens(<<"while", "(", "true", ")">>)
            [] k % 3 = 0 -> Tokens(<<"if", "(", "true", ")">>))
             \o Tokens(<<"{">>) \o ExitNest(level, k - 1, inner) \o Tokens(<<"}">>)
             \o Tokens(<<"print">>) \o <<Str("after")>> \o Tokens(<<";">>)
    ELSE << CASE k % 3 = 1 -> BlockStatement(ExitNest(level, k - 1, inner))
              [] k % 3 = 2 ->
                    WhileStatement(Expression_boolean(TRUE),
                                   BlockStatement(ExitNest(level, k - 1, inner)))
              [] k % 3 = 0 ->
                    IfElseStatement(Expression_boolean(TRUE),
                                    BlockStatement(ExitNest(level, k - 1, inner)), None),
            PrintStatement(Expression_string(Str("after"))) >>

\* lox_callable.rs 40-53 and tree_walker.rs 58-63: the ways out of a call.
\*   var c = "caller"; fun g() { nil(); }
\*   fun f(p) { var b = p; <d - 1 nested statements around the exit> }
\*   print f(7); print c;
\* where the exit is nothing (print b; then the end of the body), return b;,
\* the runtime error nil(); or the call g(); whose body has the runtime
\* error.  With d = 0 the exit is a statement of the program itself.  A body
\* that falls through has no loop around the exit: d is 2 at most.
ExitUnit(level, d, shape) ==
    LET read == IF d = 0 THEN "c" ELSE "b"
        exit ==
            IF level = "tokens"
            THEN CASE shape = <<"fall">> -> Tokens(<<"print", read, ";">>)
                   [] shape = <<"return">> ->
                         Tokens(<<"return", read, ";", "print", read, ";">>)
                   [] shape = <<"error">> ->
                         Tokens(<<"nil", "(", ")", ";", "print", read, ";">>)
                   [] shape = <<"nested">> ->
                         Tokens(<<"g", "(", ")", ";", "print", read, ";">>)
            ELSE (CASE shape = <<"fall">> -> <<>>
                    [] shape = <<"return">> ->
                          << ReturnStatement(K("return"),
                                             Expression_variable_reference(K(read))) >>
                    [] shape = <<"error">> ->
                          << ExpressionStatement(
                                 Expression_call(Expression_null(K("nil")), K(")"), <<>>)) >>
                    [] shape = <<"nested">> -> << call_statement("g", <<>>) >>)
                     \o << PrintStatement(Expression_variable_reference(K(read))) >>
    IN  Unit("exit", level,
             IF level = "tokens"
             THEN Tokens(<<"var", "c", "=">>) \o <<Str("caller")>>
                      \o Tokens(<<";", "fun", "g", "(", ")", "{", "nil", "(", ")", ";", "}">>)
                      \o (IF d = 0 THEN exit
                          ELSE Tokens(<<"fun", "f", "(", "p", ")", "{", "var", "b", "=", "p", ";">>)
                                   \o ExitNest(level, d - 1, exit)
                                   \o Tokens(<<"}", "print", "f", "(">>) \o <<Num(7)>>
                                   \o Tokens(<<")", ";", "print", "c", ";">>))
             ELSE << VariableDeclarationStatement(K("c"),
                         Some(Expression_string(Str("caller")))),
                     FunctionDeclarationStatement(K("g"), <<>>,
                         << ExpressionStatement(
                                Expression_call(Expression_null(K("nil")), K(")"), <<>>)) >>) >>
                      \o (IF d = 0 THEN exit
                          ELSE << FunctionDeclarationStatement(K("f"), <<K("p")>>,
                                      << VariableDeclarationStatement(K("b"),
                                             Some(Expression_variable_reference(K("p")))) >>
                                          \o ExitNest(level, d - 1, exit)),
                                  PrintStatement(
                                      Expression_call(Expression_variable_reference(K("f")),
                                                      K(")"),
                                                      <<Expression_number(Num(7))>>)),
                                  PrintStatement(Expression_variable_reference(K("c"))) >>),
             d, 0, LoxNull, LoxNull, shape)

\* resolver.rs 40-54: print "start"; then var x = x; print x; inside d nested
\* blocks, and inside the body of a function f when shape[2] says so; when
\* shape[1] says so the program first declares var x = 1;.
SelfInitTokens(d, shape) ==
    Unit("selfinit", "tokens",
         Tokens(<<"print">>) \o <<Str("start")>> \o Tokens(<<";">>)
             \o (IF shape[1] = "outer"
                 THEN Tokens(<<"var", "x", "=">>) \o <<Num(1)>> \o Tokens(<<";">>)
                 ELSE <<>>)
             \o Repeat(Tokens(<<"{">>), d)
             \o (IF shape[2] = "function"
                 THEN Tokens(<<"fun", "f", "(", ")", "{">>) ELSE <<>>)
             \o Tokens(<<"var", "x", "=", "x", ";", "print", "x", ";">>)
             \o (IF shape[2] = "function" THEN Tokens(<<"}">>) ELSE <<>>)
             \o Repeat(Tokens(<<"}">>), d),
         d, 0, LoxNull, LoxNull, shape)

\* resolver.rs 61-66: a function that calls itself, counting down from k,
\*   fun f(n) { print n; if (0 < n) f(n - 1); }  f(k);
\* at the top level, inside a block, or inside the body of a function that
\* is then called.
RecursionTokens(k, shape) ==
    Unit("recursion", "tokens",
         (CASE shape = <<"top">> -> <<>>
            [] shape = <<"block">> -> Tokens(<<"{">>)
            [] shape = <<"function">> -> Tokens(<<"fun", "outer", "(", ")", "{">>))
             \o Tokens(<<"fun", "f", "(", "n", ")", "{", "print", "n", ";",
                         "if", "(">>) \o <<Num(0)>>
             \o Tokens(<<"<", "n", ")", "f", "(", "n", "-">>) \o <<Num(1)>>
             \o Tokens(<<")", ";", "}", "f", "(">>) \o <<Num(k)>> \o Tokens(<<")", ";">>)
             \o (CASE shape = <<"top">> -> <<>>
                   [] shape = <<"block">> -> Tokens(<<"}">>)
                   [] shape = <<"function">> -> Tokens(<<"}", "outer", "(", ")", ";">>)),
         k, 0, LoxNull, LoxNull, shape)

\* resolver.rs 88-93: statements that fail to resolve inside d nested blocks,
\* each block with a declaration before the block nested in it.  shape[1] is
\* the statement at the innermost place: a read of the undeclared zz, the
\* declaration var x = x;, or print x;, which resolves.  With shape[2] "if"
\* the innermost place is the if branch of a conditional.
RECURSIVE ScopeTokens(_, _, _)
ScopeTokens(j, d, shape) ==
    IF j > d
    THEN (IF shape[2] = "if" THEN Tokens(<<"if", "(", "true", ")">>) ELSE <<>>)
             \o (CASE shape[1] = "undeclared" -> Tokens(<<"print", "zz", ";">>)
                   [] shape[1] = "uninitialized" -> Tokens(<<"{", "var", "x", "=", "x", ";", "}">>)
                   [] shape[1] = "resolves" -> Tokens(<<"print", "x", ";">>))
    ELSE Tokens(<<"{", "var", "x", "=">>) \o <<Num(j)>> \o Tokens(<<";">>)
             \o ScopeTokens(j + 1, d, shape)
             \o Tokens(<<"print", "x", ";", "}">>)

\* tree_walker.rs 253-277: a call whose callee and arguments all print when
\* they are evaluated.
\*   fun f(p1, .., pn) { print "body"; }
\*   fun callee() { print "callee"; return f; }
\*   fun a(q) { print q; return q; }
\*   fun bad() { print "bad"; nil(); }
\*   callee()(a(1), .., a(n));
\* With shape "not callable" callee returns nil, with "arity" f has n - 1
\* parameters, with "error" argument i is bad().
CallOrderAst(n, i, shape) ==
    Unit("call order", "ast",
         << FunctionDeclarationStatement(K("f"),
                [j \in 1..(IF shape = <<"arity">> THEN n - 1 ELSE n) |->
                    K(parameter_name(j))],
                << PrintStatement(Expression_string(Str("body"))) >>),
            FunctionDeclarationStatement(K("callee"), <<>>,
                << PrintStatement(Expression_string(Str("callee"))),
                   ReturnStatement(K("return"),
                       IF shape = <<"not callable">>
                       THEN Expression_null(K("nil"))
                       ELSE Expression_variable_reference(K("f"))) >>),
            FunctionDeclarationStatement(K("a"), <<K("q")>>,
                << PrintStatement(Expression_variable_reference(K("q"))),
                   ReturnStatement(K("return"), Expression_variable_reference(K("q"))) >>),
            FunctionDeclarationStatement(K("bad"), <<>>,
                << PrintStatement(Expression_string(Str("bad"))),
                   ExpressionStatement(
                       Expression_call(Expression_null(K("nil")), K(")"), <<>>)) >>),
            ExpressionStatement(
                Expression_call(
                    Expression_call(Expression_variable_reference(K("callee")),
                                    K(")"), <<>>),
                    K(")"),
                    [j \in 1..n |->
                        IF shape = <<"error">> /\ j = i
                        THEN Expression_call(Expression_variable_reference(K("bad")),
                                             K(")"), <<>>)
                        ELSE Expression_call(Expression_variable_reference(K("a")),
                                             K(")"), <<Expression_number(Num(j))>>)])) >>,
         n, i, LoxNull, LoxNull, shape)

\* parser/mod.rs 241-256: var a = 0; var b = 0; then the chain
\* print a = b = v;, or an assignment of v to something that is not a bare
\* identifier; then print a; print b;.
AssignTokens(v, shape) ==
    Unit("assign", "tokens",
         Tokens(<<"var", "a", "=">>) \o <<Num(0)>>
             \o Tokens(<<";", "var", "b", "=">>) \o <<Num(0)>> \o Tokens(<<";">>)
             \o (CASE shape = <<"chain">> -> Tokens(<<"print", "a", "=", "b">>)
                   [] shape = <<"grouping">> -> Tokens(<<"(", "a", ")">>)
                   [] shape = <<"literal">> -> <<Num(1)>>
                   [] shape = <<"unary">> -> Tokens(<<"-", "a">>)
                   [] shape = <<"binary">> -> Tokens(<<"a", "+", "b">>)
                   [] shape = <<"call">> -> Tokens(<<"a", "(", ")">>))
             \o Tokens(<<"=">>) \o <<Num(v)>>
             \o Tokens(<<";", "print", "a", ";", "print", "b", ";">>),
         v, 0, LoxNull, LoxNull, shape)

\* print left == right;   (or: !=)
EqualityTokens(operator, l, r) ==
    Unit("equality", "tokens",
         declare_f \o Tokens(<<"print">>) \o operand_tokens(l)
             \o Tokens(<<operator>>) \o operand_tokens(r) \o Tokens(<<";">>),
         0, 0, l, r, <<operator>>)

\* var hit = "no"; print left or (hit = right); print hit;   (or: and)
LogicTokens(operator, l, r) ==
    Unit("logic", "tokens",
         declare_f \o Tokens(<<"var", "hit", "=">>) \o <<Str("no")>>
             \o Tokens(<<";", "print">>) \o operand_tokens(l)
             \o Tokens(<<operator, "(", "hit", "=">>) \o operand_tokens(r)
             \o Tokens(<<")", ";", "print", "hit", ";">>),
         0, 0, l, r, <<operator>>)

\* The parts of a loop over i = 0, 1, ..: shape is <<init, cond, incr>>.  A
\* loop without cond is left through the error of calling nil, a loop
\* without incr increments in its body.
loop_declares(shape) ==
    IF shape[1] = "var" THEN <<>>
    ELSE Tokens(<<"var", "i", "=">>) \o <<Num(1)>> \o Tokens(<<";">>)

loop_init(shape) ==
    CASE shape[1] = "var" -> Tokens(<<"var", "i", "=">>) \o <<Num(0)>> \o Tokens(<<";">>)
      [] shape[1] = "expression" -> Tokens(<<"i", "=">>) \o <<Num(0)>> \o Tokens(<<";">>)
      [] shape[1] = "none" -> <<>>

loop_cond(n, shape) ==
    IF shape[2] = "cond" THEN Tokens(<<"i", "<">>) \o <<Num(n)>> ELSE <<>>

loop_incr == Tokens(<<"i", "=", "i", "+">>) \o <<Num(1)>>

loop_body(n, shape) ==
    IF shape[2] = "cond" /\ shape[3] = "incr" THEN Tokens(<<"print", "i", ";">>)
    ELSE Tokens(<<"{">>)
             \o (IF shape[2] = "cond" THEN <<>>
                 ELSE Tokens(<<"if", "(", "!", "(", "i", "<">>) \o <<Num(n)>>
                          \o Tokens(<<")", ")", "nil", "(", ")", ";">>))
             \o Tokens(<<"print", "i", ";">>)
             \o (IF shape[3] = "incr" THEN <<>> ELSE loop_incr \o Tokens(<<";">>))
             \o Tokens(<<"}">>)

\* tests/interpreter/control_flow.rs 56-66 (for_works):
\* for (init; cond; incr) body, over i = 0 .. n - 1 (from 1 without init).
ForTokens(n, shape) ==
    Unit("for", "tokens",
         loop_declares(shape)
             \o Tokens(<<"for", "(">>)
             \o (IF shape[1] = "none" THEN Tokens(<<";">>) ELSE loop_init(shape))
             \o loop_cond(n, shape) \o Tokens(<<";">>)
             \o (IF shape[3] = "incr" THEN loop_incr ELSE <<>>)
             \o Tokens(<<")">>) \o loop_body(n, shape),
         n, 0, LoxNull, LoxNull, shape)

\* The text the loop stands for: { init while (cond) { body incr; } }, with
\* true for a missing cond, no braces around a lone body and none around a
\* lone while.
WhileTokens(n, shape) ==
    loop_declares(shape)
        \o (IF shape[1] = "none" THEN <<>> ELSE Tokens(<<"{">>) \o loop_init(shape))
        \o Tokens(<<"while", "(">>)
        \o (IF shape[2] = "cond" THEN loop_cond(n, shape) ELSE Tokens(<<"true">>))
        \o Tokens(<<")">>)
        \o (IF shape[3] = "incr"
            THEN Tokens(<<"{">>) \o loop_body(n, shape) \o loop_incr
                     \o Tokens(<<";", "}">>)
            ELSE loop_body(n, shape))
        \o (IF shape[1] = "none" THEN <<>> ELSE Tokens(<<"}">>))

Shapes == {"var", "expression", "none"} \X {"cond", "forever"} \X {"incr", "body"}

\* tests/interpreter/control_flow.rs 28-40
\* (ambiguous_if_else_is_execute_correctly): if (left) if (right) S1 else S2.
ElseTokens(l, r) ==
    Unit("else", "tokens",
         declare_f \o Tokens(<<"if", "(">>) \o operand_tokens(l)
             \o Tokens(<<")", "if", "(">>) \o operand_tokens(r)
             \o Tokens(<<")", "print">>) \o <<Str("S1")>>
             \o Tokens(<<";", "else", "print">>) \o <<Str("S2")>> \o Tokens(<<";">>),
         0, 0, l, r, <<>>)

\* tree_walker.rs 38-46: a text whose statements fail in the stages that
\* shape names: print "x"; then a call of nil (fails when run), a read of the
\* undeclared zz (fails to resolve), a print without operand (fails to parse).
StageTokens(shape) ==
    Unit("stages", "tokens",
         Tokens(<<"print">>) \o <<Str("x")>> \o Tokens(<<";">>)
             \o (IF shape[3] = "run" THEN Tokens(<<"nil", "(", ")", ";">>) ELSE <<>>)
             \o (IF shape[2] = "resolve" THEN Tokens(<<"print", "zz", ";">>) ELSE <<>>)
             \o (IF shape[1] = "parse" THEN Tokens(<<"print", ";">>) ELSE <<>>),
         0, 0, LoxNull, LoxNull, shape)

\* repl.rs 11-22: the texts of successive execute_raw calls on one
\* interpreter.  The first declares a and f, the next assigns to a, the last
\* reads a and calls f; shape tells whether a call that ends in a
\* RuntimeError comes in between.
SessionTokens(shape) ==
    Unit("session", "session",
         << Tokens(<<"var", "a", "=">>) \o <<Num(1)>>
                \o Tokens(<<";", "fun", "f", "(", ")", "{", "print", "a", ";", "}">>) >>
             \o (IF shape = <<"error">> THEN << Tokens(<<"nil", "(", ")", ";">>) >>
                 ELSE <<>>)
             \o << Tokens(<<"a", "=">>) \o <<Num(2)>> \o Tokens(<<";">>),
                   Tokens(<<"print", "a", ";", "f", "(", ")", ";">>) >>,
         0, 0, LoxNull, LoxNull, shape)

\* parser/mod.rs 39-50: print 0; then a statement that fails to parse, then
\* n well-formed statements print 1; .. print n;.  The failing statement is a
\* print without operand, which fails in primary, a print with a
\* parenthesis where its semicolon should be, which fails in expect, or an
\* assignment to a number, which fails in assignment.
RecoveryTokens(n, shape) ==
    Unit("recovery", "tokens",
         Tokens(<<"print">>) \o <<Num(0)>> \o Tokens(<<";">>)
             \o (CASE shape = <<"operand">> -> Tokens(<<"print", ";">>)
                   [] shape = <<"semicolon">> ->
                         Tokens(<<"print">>) \o <<Str("a")>> \o Tokens(<<")", ";">>)
                   [] shape = <<"target">> ->
                         <<Num(1)>> \o Tokens(<<"=">>) \o <<Num(2)>> \o Tokens(<<";">>))
             \o [i \in 1..(3 * n) |->
                    CASE i % 3 = 1 -> K("print")
                      [] i % 3 = 2 -> Num((i + 1) \div 3)
                      [] i % 3 = 0 -> K(";")],
         n, 0, LoxNull, LoxNull, shape)

\* A source text, handed to execute_raw as its characters.
ScanChars(chars) ==
    Unit("scan", "chars", chars, Len(chars), 0, LoxNull, LoxNull, <<>>)

\* The characters of the texts: one of every kind that scan_token tells apart.
Characters == {"0", ".", "\"", "/", "\n", "=", "a", "@", ";"}

Units ==
    {CounterTokens(k) : k \in 0..MaxCalls}
        \cup {CounterAst(k) : k \in 0..MaxCalls}
        \cup {CaptureTokens(n, m) : n \in 0..MaxCalls, m \in 0..MaxCalls}
        \cup {ShadowTokens(d, assigns) : d \in 1..MaxDepth, assigns \in BOOLEAN}
        \cup {LeakTokens(n, name) : n \in 0..1, name \in {"p", "c"}}
        \cup {UndeclaredTokens(position) : position \in Positions}
        \cup {ArityAst(n, m) : n \in 0..MaxArity, m \in 0..MaxArity}
        \cup {ArityTokens(n, m) : n \in 0..1, m \in 0..1}
        \cup {PlusTokens(l, r) : l \in Operands, r \in Operands}
        \cup {LogicTokens(operator, l, r) :
                  operator \in {"or", "and"}, l \in Operands, r \in Operands}
        \cup {ForTokens(n, shape) : n \in 0..MaxIterations, shape \in Shapes}
        \cup {ElseTokens(l, r) : l \in Operands, r \in Operands}
        \cup {StageTokens(<<p, r, x>>) :
                  p \in {"parse", "-"}, r \in {"resolve", "-"}, x \in {"run", "-"}}
        \cup {SessionTokens(shape) : shape \in {<<"error">>, <<"-">>}}
        \cup {EqualityTokens(operator, l, r) :
                  operator \in {"==", "!="}, l \in Operands, r \in Operands}
        \cup {[EqualityTokens(operator, LoxNumber(l), LoxNumber(r))
                   EXCEPT !.family = "comparison"] :
                  operator \in {">", ">=", "<", "<="},
                  l \in 0..MaxNumber, r \in 0..MaxNumber}
        \cup {ExitUnit(level, d, shape) :
                  level \in {"tokens", "ast"}, d \in 0..MaxDepth,
                  shape \in {<<"return">>, <<"error">>, <<"nested">>}}
        \cup {ExitUnit(level, d, <<"fall">>) :
                  level \in {"tokens", "ast"}, d \in 0..2}
        \cup {SelfInitTokens(d, shape) :
                  d \in 0..MaxDepth,
                  shape \in {"outer", "-"} \X {"function", "-"}}
        \cup {RecursionTokens(k, shape) :
                  k \in 0..MaxCalls,
                  shape \in {<<"top">>, <<"block">>, <<"function">>}}
        \cup {Unit("scopes", "tokens",
                   Tokens(<<"var", "x", "=">>) \o <<Str("global")>> \o Tokens(<<";">>)
                       \o ScopeTokens(1, d, shape) \o Tokens(<<"print", "x", ";">>),
                   d, 0, LoxNull, LoxNull, shape) :
                  d \in 0..MaxDepth,
                  shape \in {"undeclared", "uninitialized", "resolves"} \X {"if", "-"}}
        \cup {Unit("redeclare", "tokens",
                   Tokens(<<"var", "a", "=">>) \o <<Num(0)>> \o Tokens(<<";">>)
                       \o Repeat(Tokens(<<"{", "var", "a", "=">>) \o <<Num(1)>>
                                     \o Tokens(<<";", "print", "a", ";", "}",
                                                 "var", "a", "=">>) \o <<Num(2)>>
                                     \o Tokens(<<";", "print", "a", ";">>), d),
                   d, 0, LoxNull, LoxNull, <<>>) :
                  d \in 1..MaxDepth}
        \cup {CallOrderAst(n, 0, shape) :
                  n \in 2..(MaxArity + 1),
                  shape \in {<<"ok">>, <<"not callable">>, <<"arity">>}}
        \cup UNION {{CallOrderAst(n, i, <<"error">>) : i \in 1..n} :
                        n \in 2..(MaxArity + 1)}
        \cup {AssignTokens(v, shape) :
                  v \in 1..MaxNumber,
                  shape \in {<<"chain">>, <<"grouping">>, <<"literal">>, <<"unary">>,
                             <<"binary">>, <<"call">>}}
        \cup {ListTokens(n, shape) :
                  n \in 0..MaxArity,
                  shape \in {<<"declaration">>, <<"call">>, <<"both">>}}
        \cup {RecoveryTokens(n, shape) :
                  n \in 0..MaxNumber,
                  shape \in {<<"operand">>, <<"semicolon">>, <<"target">>}}
        \cup {ScanChars(chars) :
                  chars \in UNION {[1..k -> Characters] : k \in 0..MaxSourceLength}}

(***************************************************************************)
(* The state machine: one unit on its way through execute_raw.              *)
(*   unit        the source unit                                            *)
(*   line        the execute_raw call on the interpreter, counted from 1    *)
(*   stage       "scan", "parse", "resolve", "execute" or "done"            *)
(*   cursor      the next character the scanner reads                       *)
(*   tokens      the tokens of the source of the call                       *)
(*   parser      the Parser (position in the token stream, mode) and the    *)
(*               local has_errored of Parser::parse                         *)
(*   ast         the statements Parser::parse returned                      *)
(*   environment the Environment of the Resolver of the call                *)
(*   resolved_ast  the statements Resolver::resolve returned                *)
(*   pc          the statement batch_execute is at                          *)
(*   interpreter the Interpreter: bindings, cells, functions, output        *)
(*   raw_outcome what execute_raw returned: "Ok", the variant of            *)
(*               ExecuteRawError, or "panic" when it did not return         *)
(*   message     the message of the RuntimeError                            *)
(***************************************************************************)
VARIABLES unit, line, stage, cursor, tokens, parser, ast, environment,
          resolved_ast, pc, interpreter, raw_outcome, message

vars == <<unit, line, stage, cursor, tokens, parser, ast, environment,
          resolved_ast, pc, interpreter, raw_outcome, message>>

Init ==
    /\ unit \in Units
    /\ line = 1
    /\ stage = CASE unit.level = "chars" -> "scan"
                 [] unit.level \in {"tokens", "session"} -> "parse"
                 [] unit.level = "ast" -> "resolve"
    /\ cursor = 1
    /\ tokens = CASE unit.level = "tokens" -> unit.program
                  [] unit.level = "session" -> unit.program[1]
                  [] OTHER -> <<>>
    /\ parser = [p |-> NewParser, has_errored |-> FALSE]
    /\ ast = IF unit.level = "ast" THEN unit.program ELSE <<>>
    /\ environment = Environment_new
    /\ resolved_ast = <<>>
    /\ pc = 1
    /\ interpreter = Interpreter_new
    /\ raw_outcome = "running"
    /\ message = ""

\* scanner.rs 16-18: Scanner::next, one scan_token; the parser is handed the
\* tokens when the text has ended.
Scan ==
    /\ stage = "scan"
    /\ \E r \in {scan_token(unit.program, cursor)} :
       /\ cursor' = r.p
       /\ IF r.tok = None
          THEN stage' = "parse" /\ UNCHANGED tokens
          ELSE tokens' = Append(tokens, r.tok[1]) /\ UNCHANGED stage
    /\ UNCHANGED <<unit, line, parser, ast, environment, resolved_ast, pc,
                   interpreter, raw_outcome, message>>

\* tree_walker.rs 39-40: Parser::parse(Scanner::new(source)), and the return
\* of ExecuteRawError::ParserError with the statements that were parsed.
Parse ==
    /\ stage = "parse"
    /\ \E parsed \in {parse(tokens)} :
       /\ parser' = [p |-> parsed.p, has_errored |-> ~parsed.ok]
       /\ IF parsed.ok
          THEN /\ ast' = parsed.statements
               /\ stage' = "resolve"
               /\ UNCHANGED raw_outcome
          ELSE /\ raw_outcome' = "ParserError"
               /\ stage' = "done"
               /\ ast' = parsed.statements
    /\ UNCHANGED <<unit, line, cursor, tokens, environment, resolved_ast, pc,
                   interpreter, message>>

\* tree_walker.rs 41-43: Resolver::new().resolve(statements), and the return
\* of ExecuteRawError::NameResolutionError.
Resolve ==
    /\ stage = "resolve"
    /\ \E r \in {resolve(Environment_new, ast)} :
       /\ environment' = r.env
       /\ IF r.ok
          THEN /\ resolved_ast' = r.v
               /\ stage' = "execute"
               /\ UNCHANGED raw_outcome
          ELSE /\ raw_outcome' = "NameResolutionError"
               /\ stage' = "done"
               /\ UNCHANGED resolved_ast
    /\ UNCHANGED <<unit, line, cursor, tokens, parser, ast, pc, interpreter,
                   message>>

\* tree_walker.rs 50-52: one turn of the loop of batch_execute, and the
\* return of ExecuteRawError::RuntimeError.
Execute ==
    /\ stage = "execute"
    /\ pc <= Len(resolved_ast)
    /\ \E r \in {execute(interpreter, resolved_ast[pc])} :
       /\ interpreter' = r.st
       /\ CASE r.ctl = "ok" ->
                 /\ pc' = pc + 1
                 /\ UNCHANGED <<stage, raw_outcome, message>>
            [] r.ctl = "error" ->
                 /\ raw_outcome' = "RuntimeError"
                 /\ message' = r.msg
                 /\ stage' = "done"
                 /\ UNCHANGED pc
            [] r.ctl = "panic" ->
                 /\ raw_outcome' = "panic"
                 /\ stage' = "done"
                 /\ UNCHANGED <<pc, message>>
    /\ UNCHANGED <<unit, line, cursor, tokens, parser, ast, environment,
                   resolved_ast>>

\* tree_walker.rs 53 and 44-45: batch_execute and execute_raw return Ok(()).
Finish ==
    /\ stage = "execute"
    /\ pc > Len(resolved_ast)
    /\ raw_outcome' = "Ok"
    /\ stage' = "done"
    /\ UNCHANGED <<unit, line, cursor, tokens, parser, ast, environment,
                   resolved_ast, pc, interpreter, message>>

\* repl.rs 11-22: the next execute_raw call on the same interpreter, after a
\* call that returned, Ok or Err.
NextCall ==
    /\ stage = "done"
    /\ unit.level = "session"
    /\ raw_outcome # "panic"
    /\ line < Len(unit.program)
    /\ line' = line + 1
    /\ tokens' = unit.program[line + 1]
    /\ stage' = "parse"
    /\ parser' = [p |-> NewParser, has_errored |-> FALSE]
    /\ ast' = <<>>
    /\ environment' = Environment_new
    /\ resolved_ast' = <<>>
    /\ pc' = 1
    /\ raw_outcome' = "running"
    /\ message' = ""
    /\ UNCHANGED <<unit, cursor, interpreter>>

Next == Scan \/ Parse \/ Resolve \/ Execute \/ Finish \/ NextCall

Spec == Init /\ [][Next]_vars

\* parser/mod.rs 39-50: one turn of the loop of Parser::parse: a declaration,
\* pushed when it is Some, and the skip to the recovery point when it is None.
ParseTurn ==
    /\ stage = "parse"
    /\ ~is_at_end(Source(tokens), parser.p)
    /\ \E s \in {declaration(Source(tokens), parser.p)} :
       IF s.ok
       THEN /\ ast' = Append(ast, s.v)
            /\ parser' = [parser EXCEPT !.p = s.p]
       ELSE /\ parser' = [p |-> advance_until_recovery_point(Source(tokens), s.p),
                          has_errored |-> TRUE]
            /\ UNCHANGED ast
    /\ UNCHANGED <<unit, line, stage, cursor, tokens, environment, resolved_ast,
                   pc, interpreter, raw_outcome, message>>

\* parser/mod.rs 39 and 51-55: the loop has ended, parse returns Err or Ok.
ParseReturn ==
    /\ stage = "parse"
    /\ is_at_end(Source(tokens), parser.p)
    /\ stage' = "done"
    /\ raw_outcome' = IF parser.has_errored THEN "ParserError" ELSE "Ok"
    /\ UNCHANGED <<unit, line, cursor, tokens, parser, ast, environment,
                   resolved_ast, pc, interpreter, message>>

\* parser/mod.rs 32-38: Parser::parse has constructed the parser, on the
\* token text of a unit or on any sequence of up to MaxTokens tokens.
ParserInit ==
    /\ unit \in {u \in Units : u.level = "tokens"}
                 \cup {Unit("parser", "tokens", ts, Len(ts), 0, LoxNull, LoxNull, <<>>) :
                          ts \in UNION {[1..k -> {K("print"), K(";"), Num(0), K("="),
                                                  K("{"), K("}"), K("return"),
                                                  K("("), K("var"), K("a")}] :
                                            k \in 0..MaxTokens}}
    /\ line = 1
    /\ stage = "parse"
    /\ cursor = 1
    /\ tokens = unit.program
    /\ parser = [p |-> NewParser, has_errored |-> FALSE]
    /\ ast = <<>>
    /\ environment = Environment_new
    /\ resolved_ast = <<>>
    /\ pc = 1
    /\ interpreter = Interpreter_new
    /\ raw_outcome = "running"
    /\ message = ""

\* parser/mod.rs 31-56: Parser::parse alone, turn by turn.  A call that has
\* begun runs on until it returns: weak fairness of ParseReturn and of
\* ParseTurn, the latter with its enabling condition, the guard of the while
\* loop, written out.
ParserSpec ==
    /\ ParserInit
    /\ [][ParseTurn \/ ParseReturn]_vars
    /\ WF_vars(ParseReturn)
    /\ \/ []<>(stage # "parse" \/ is_at_end(Source(tokens), parser.p))
       \/ []<><<ParseTurn>>_vars

(***************************************************************************)
(* Properties.                                                              *)
(***************************************************************************)
\* The variants of ExecuteRawError (tree_walker.rs 298-306).
Errors == {"ParserError", "NameResolutionError", "RuntimeError"}

\* Null and Boolean(false), the falsy values of the language.
Falsy(v) == v = LoxNull \/ v = LoxBoolean(FALSE)

C2_ClosureReadsDeclarationInForce ==
    (unit.family = "capture" /\ stage \in {"execute", "done"}) =>
        /\ raw_outcome \in {"running", "Ok"}
        /\ \A i \in DOMAIN interpreter.output : interpreter.output[i] = "global"
        /\ stage = "done" => Len(interpreter.output) = unit.n + unit.m

\* C2 witness: showA has been called before and after the second declaration.
C2_Witness ==
    /\ unit.family = "capture" /\ unit.n >= 1 /\ unit.m >= 1
    /\ stage = "done" /\ raw_outcome = "Ok"
    /\ Len(interpreter.output) = unit.n + unit.m

\* The value of the a of nesting depth j of a shadow unit when it is read.
ShadowValue(j) ==
    IF j = 0 THEN "0"
    ELSE ToString(j + (IF unit.shape = <<"assign">> THEN 10 ELSE 0))

\* The lines of a shadow unit of d blocks: a and b on the way into the blocks
\* 1 .. d, then a and b after the blocks d + 1 .. 1 have ended.
ShadowOutput ==
    [i \in 1..(4 * unit.n + 2) |->
        IF i % 2 = 0 THEN "global b"
        ELSE IF (i + 1) \div 2 <= unit.n THEN ShadowValue((i + 1) \div 2)
        ELSE ShadowValue(2 * unit.n + 1 - ((i + 1) \div 2))]

\* C3: a `var a` in a nested block never changes an a of an enclosing scope.
\* At every depth the reads in the block after its declaration see the
\* block's own a, the reads of b, which no block declares, see the global b,
\* and the reads after a nested block has ended see the value a had before it.
C3_ShadowingLeavesOuter ==
    (unit.family = "shadow" /\ stage = "done") =>
        /\ raw_outcome = "Ok"
        /\ interpreter.output = ShadowOutput

\* C3 witness: a unit of at least two nested blocks, each of which assigned
\* to its own a, has ended.
C3_Witness ==
    /\ unit.family = "shadow" /\ unit.n >= 2 /\ unit.shape = <<"assign">>
    /\ stage = "done" /\ raw_outcome = "Ok"
    /\ Len(interpreter.output) = 4 * unit.n + 2

\* C4: the parameters and the variables of the body of a function are not
\* visible outside it: a read of p or of c after the declaration of f makes
\* execute_raw return an error, whether f was called or not.
C4_FunctionNamesStayInside ==
    (unit.family = "leak" /\ stage = "done") => raw_outcome \in Errors

\* C5: a read of a name that no scope enclosing the read has declared makes
\* execute_raw return an error, and the read yields no value: nothing is
\* printed.
C5_UndeclaredReadIsAnError ==
    (unit.family \in {"undeclared", "leak"} /\ stage = "done") =>
        /\ raw_outcome \in Errors
        /\ interpreter.output = <<>>

\* C6: a call of a function of n parameters with m # n arguments is a
\* RuntimeError whose message names n and m, and the body is never executed:
\* nothing is printed in any state of the unit.  With m = n the body runs.
C6_ArityMismatchIsAnError ==
    unit.family = "arity" =>
        /\ unit.n # unit.m => interpreter.output = <<>>
        /\ stage = "done" =>
              IF unit.n # unit.m
              THEN /\ raw_outcome = "RuntimeError"
                   /\ message = "Expect " \o ToString(unit.n) \o " arguments, but got "
                                    \o ToString(unit.m) \o " arguments."
              ELSE /\ raw_outcome = "Ok"
                   /\ interpreter.output = <<"body">>

\* C6 witness: a function of two parameters was called with a single
\* argument, and with none.
C6_Witness ==
    /\ unit.family = "arity" /\ unit.n = 2 /\ unit.m < 2
    /\ stage = "done" /\ raw_outcome = "RuntimeError"

\* C7: `+` succeeds exactly on Number + Number, with the sum, and on
\* String + String, with the concatenation; every other pair of operands is
\* a RuntimeError and prints nothing.
C7_PlusOnNumbersOrStrings ==
    (unit.family = "plus" /\ stage = "done") =>
        CASE unit.left.t = "Number" /\ unit.right.t = "Number" ->
                /\ raw_outcome = "Ok"
                /\ interpreter.output = <<ToString(unit.left.n + unit.right.n)>>
          [] unit.left.t = "String" /\ unit.right.t = "String" ->
                /\ raw_outcome = "Ok"
                /\ interpreter.output = <<unit.left.s \o unit.right.s>>
          [] OTHER ->
                /\ raw_outcome = "RuntimeError"
                /\ interpreter.output = <<>>

\* C7 witness: a Number was added to a String, and the unit ended in a
\* RuntimeError.
C7_Witness ==
    /\ unit.family = "plus" /\ unit.left.t = "Number" /\ unit.right.t = "String"
    /\ stage = "done" /\ raw_outcome = "RuntimeError"

\* Whether the left operand alone decides the logic unit's operator.
LeftDecides ==
    IF unit.shape = <<"or">> THEN ~Falsy(unit.left) ELSE Falsy(unit.left)

\* C8: `a or b` is the value of a when a is truthy and of b otherwise, `a and
\* b` the value of a when a is falsy and of b otherwise: the operand itself is
\* printed, not a Boolean; and b, an assignment to hit, is evaluated only when
\* a does not decide: otherwise hit keeps the value "no".
C8_LogicYieldsOperand ==
    (unit.family = "logic" /\ stage = "done") =>
        /\ raw_outcome = "Ok"
        /\ interpreter.output =
               IF LeftDecides THEN <<Display(unit.left), "no">>
               ELSE <<Display(unit.right), Display(unit.right)>>

\* C8 witness: `or` with a truthy Number on the left has ended, and hit was
\* not assigned.
C8_Witness ==
    /\ unit.family = "logic" /\ unit.shape = <<"or">>
    /\ unit.left = LoxNumber(0) /\ unit.right = LoxBoolean(TRUE)
    /\ stage = "done" /\ interpreter.output = <<"0", "no">>

\* The values of i the body of a loop unit prints: from 0, or from the 1 of
\* the declaration when the loop has no init, up to n - 1.
LoopOutput ==
    LET start == IF unit.shape[1] = "none" THEN 1 ELSE 0 IN
    [k \in 1..(IF unit.n > start THEN unit.n - start ELSE 0) |->
        ToString(start + k - 1)]

\* C9: for (init; cond; incr) body is init, once, followed by
\* while (cond) { body; incr }: the statements the parser builds for the loop
\* are those it builds for that text, with true for a missing cond and no
\* statement for a missing incr; the body prints i = 0, 1, .. while cond
\* holds, and a loop without cond runs until an error leaves it.
C9_ForIsWhile ==
    (unit.family = "for" /\ stage # "parse") =>
        /\ raw_outcome # "ParserError"
        /\ parse(WhileTokens(unit.n, unit.shape)).ok
        /\ ast = parse(WhileTokens(unit.n, unit.shape)).statements
        /\ stage = "done" =>
              /\ interpreter.output = LoopOutput
              /\ raw_outcome = IF unit.shape[2] = "cond" THEN "Ok" ELSE "RuntimeError"

\* C9 witness: for (var i = 0; i < 2; i = i + 1) print i; has printed 0, 1.
C9_Witness ==
    /\ unit.family = "for" /\ unit.shape = <<"var", "cond", "incr">> /\ unit.n = 2
    /\ stage = "done" /\ raw_outcome = "Ok"
    /\ interpreter.output = <<"0", "1">>

\* C10: an else belongs to the nearest if before it that has none yet.  In
\* if (c1) if (c2) S1 else S2 the outer if has no else branch and the inner
\* one has S2; nothing is printed when c1 is falsy, S2 when c1 is truthy and
\* c2 falsy, S1 when both are truthy.
C10_ElseOfNearestIf ==
    (unit.family = "else" /\ stage # "parse") =>
        /\ raw_outcome # "ParserError"
        /\ Len(ast) = 2
        /\ ast[2].k = "IfElse" /\ ast[2].else_branch = None
        /\ ast[2].if_branch.k = "IfElse" /\ ast[2].if_branch.else_branch # None
        /\ stage = "done" =>
              /\ raw_outcome = "Ok"
              /\ interpreter.output =
                     IF Falsy(unit.left) THEN <<>>
                     ELSE IF Falsy(unit.right) THEN <<"S2">>
                     ELSE <<"S1">>

\* C10 witness: if (false) if (true) S1 else S2 has ended without output.
C10_Witness ==
    /\ unit.family = "else"
    /\ unit.left = LoxBoolean(FALSE) /\ unit.right = LoxBoolean(TRUE)
    /\ stage = "done" /\ raw_outcome = "Ok" /\ interpreter.output = <<>>
\* C11: execute_raw reports the first stage that fails and only that one.  A
\* text with a statement that fails to parse ends in ParserError, whatever
\* its other statements do; one that parses and has a statement that fails
\* to resolve ends in NameResolutionError; one that parses and resolves and
\* has a statement that fails when run ends in RuntimeError; Ok is returned
\* only when no stage fails.  No statement runs, and nothing is printed,
\* unless the text parsed and resolved.
C11_FirstFailingStage ==
    unit.family = "stages" =>
        /\ stage = "done" =>
              raw_outcome = CASE unit.shape[1] = "parse" -> "ParserError"
                              [] unit.shape[1] # "parse" /\ unit.shape[2] = "resolve"
                                     -> "NameResolutionError"
                              [] unit.shape[1] # "parse" /\ unit.shape[2] # "resolve"
                                     /\ unit.shape[3] = "run" -> "RuntimeError"
                              [] OTHER -> "Ok"
        /\ (unit.shape[1] = "parse" \/ unit.shape[2] = "resolve") =>
              /\ interpreter.output = <<>>
              /\ stage # "execute"
        /\ unit.shape[1] = "parse" => stage # "resolve"

\* C11 witness: a text with a failure for every stage has ended in
\* ParserError.
C11_Witness ==
    /\ unit.family = "stages" /\ unit.shape = <<"parse", "resolve", "run">>
    /\ stage = "done" /\ raw_outcome = "ParserError"
\* C12: state persists across the execute_raw calls on one interpreter.  The
\* variable a and the function f that the first call declared are assigned,
\* read and called by the later calls: every call but the one that calls nil
\* returns Ok, also after that one, and the last call prints the value last
\* written to a, 2, from the top level and from the body of f.
C12_StatePersistsAcrossCalls ==
    (unit.family = "session" /\ stage = "done") =>
        /\ raw_outcome = IF unit.shape = <<"error">> /\ line = 2
                         THEN "RuntimeError" ELSE "Ok"
        /\ line = Len(unit.program) => interpreter.output = <<"2", "2">>
\* C13: after a statement failed to parse, the parser skips to the recovery
\* point and parses normally again.  The text is a ParserError, and the
\* statements returned with it are the well-formed ones in the order of the
\* text: print 0; from before the failure and print 1; .. print n; from
\* after the recovery point.
C13_ParserResumesAfterRecovery ==
    (unit.family = "recovery" /\ stage = "done") =>
        /\ raw_outcome = "ParserError"
        /\ ast = [i \in 1..(unit.n + 1) |->
                      PrintStatement(Expression_number(Num(i - 1)))]
\* C14: a call with n arguments and a declaration with n parameters parse
\* for every n from 0 up to the limit of 255: a text that declares f with
\* n parameters, calls f with n arguments, or does both, is never a
\* ParserError.
C14_ListsUpToLimitParse ==
    (unit.family = "lists" /\ unit.n <= MaxArguments /\ stage = "done") =>
        raw_outcome # "ParserError"

\* C16: a function declared with n >= 2 comma-separated parameters and
\* called with n comma-separated arguments runs without error, and the i-th
\* parameter holds the i-th argument: the body prints 1 .. n.
C16_ParametersHoldArguments ==
    (unit.family = "lists" /\ unit.shape = <<"both">> /\ unit.n >= 2
        /\ stage = "done") =>
        /\ raw_outcome = "Ok"
        /\ interpreter.output = [i \in 1..unit.n |-> ToString(i)]
\* The lexemes of a token sequence, one after the other.
RECURSIVE Lexemes(_)
Lexemes(ts) == IF ts = <<>> THEN "" ELSE ts[1].lexeme \o Lexemes(Tail(ts))

\* The number of occurrences of the character c in a text.
Occurrences(c, chars) == Cardinality({i \in DOMAIN chars : chars[i] = c})

\* The SyntaxError tokens of a token sequence.
SyntaxErrors(ts) == {i \in DOMAIN ts : ts[i].ty = "SyntaxError"}

\* C15: the scanner ends on every text with finitely many tokens.  Each scan
\* step consumes at least one character and the cursor never passes the end
\* of the text, so there are at most as many tokens as characters and the
\* scan ends with the whole text consumed.  No character is read twice:
\* where there is no comment the lexemes of the tokens, one after the other,
\* are the text consumed so far.  A character no token starts with becomes
\* a SyntaxError token of its own and an unterminated string becomes the
\* last token, a SyntaxError; the tokens after an error token are scanned
\* as usual.
C15_ScannerTerminates ==
    /\ [](unit.family = "scan" =>
            /\ cursor \in 1..(Len(unit.program) + 1)
            /\ Len(tokens) <= cursor - 1
            /\ stage # "scan" => cursor = Len(unit.program) + 1
            /\ Occurrences("/", unit.program) < 2 =>
                  Lexemes(tokens)
                      = String_from_iter(SubSeq(unit.program, 1, cursor - 1))
            /\ \A i \in SyntaxErrors(tokens) :
                  \/ tokens[i].lexeme = "@"
                  \/ /\ i = Len(tokens)
                     /\ cursor = Len(unit.program) + 1
                     /\ Occurrences("\"", unit.program) > 0
            /\ (stage # "scan" /\ Occurrences("/", unit.program) < 2) =>
                  /\ Occurrences("\"", unit.program) = 0 =>
                        Cardinality(SyntaxErrors(tokens))
                            = Occurrences("@", unit.program)
                  /\ Occurrences("\"", unit.program) % 2 = 1 =>
                        Len(tokens) \in SyntaxErrors(tokens))
    /\ [][(unit.family = "scan" /\ stage = "scan") =>
             \/ cursor' > cursor
             \/ cursor = Len(unit.program) + 1 /\ stage' = "parse"]_vars

\* C15 witness: a text scanned to its end, with an unscannable character, a
\* semicolon scanned after it, and an unterminated string at its end.
C15_Witness ==
    /\ unit.family = "scan"
    /\ stage = "parse"
    /\ Len(tokens) = 3
    /\ tokens[1].ty = "SyntaxError"
    /\ tokens[1].lexeme = "@"
    /\ tokens[2].ty = "Semicolon"
    /\ tokens[3].ty = "SyntaxError"
    /\ tokens[3].lexeme = "\""
\* C17: a == b prints the Boolean "a and b are equal" and a != b its
\* negation, where two values are equal when both are nil or both are
\* numbers, strings or Booleans with the same payload, and unequal in every
\* other case; neither operator is ever an error.
C17_EqualityIsTotal ==
    (unit.family = "equality" /\ stage = "done") =>
        /\ raw_outcome = "Ok"
        /\ interpreter.output =
              << IF (unit.shape = <<"==">>)
                      = (/\ unit.left.t \in {"Null", "Number", "String", "Boolean"}
                         /\ unit.left = unit.right)
                 THEN "true" ELSE "false" >>
C19_CallRestoresBindings ==
    [][(unit.family = "exit" /\ unit.n >= 1 /\ stage = "execute"
           /\ pc = Len(resolved_ast) - 1) =>
          /\ interpreter'.bindings = interpreter.bindings
          /\ CASE unit.shape = <<"fall">> ->
                     /\ pc' = pc + 1
                     /\ interpreter'.output[Len(interpreter'.output)] = "'nil'"
                [] unit.shape = <<"return">> ->
                     /\ pc' = pc + 1
                     /\ interpreter'.output = <<"7">>
                [] OTHER ->
                     /\ raw_outcome' = "RuntimeError"
                     /\ message' = "''nil'' is not callable."]_vars

\* C19 witness: the run has failed in g, called from inside a loop and a
\* block of the body of f, and the binding map holds c, g and f.
C19_Witness ==
    /\ unit.family = "exit" /\ unit.shape = <<"nested">> /\ unit.n = 3
    /\ stage = "done"
    /\ raw_outcome = "RuntimeError"
    /\ Cardinality(DOMAIN interpreter.bindings) = 3
\* C20: var x = x; is a resolution failure in every scope: at the top level,
\* inside nested blocks and inside a function body, and also when an
\* enclosing scope holds an initialized x.  The text is parsed, nothing of
\* it runs, and the value of the outer x is never used.
C20_SelfInitializerFails ==
    unit.family = "selfinit" =>
        /\ stage = "done" => raw_outcome = "NameResolutionError"
        /\ stage # "execute"
        /\ interpreter.output = <<>>

\* C20 witness: the declaration inside nested blocks, under an initialized
\* outer x, has failed to resolve.
C20_Witness ==
    /\ unit.family = "selfinit"
    /\ unit.shape = <<"outer", "-">>
    /\ unit.n = 2
    /\ stage = "done"
    /\ raw_outcome = "NameResolutionError"
\* C21: a function whose body calls its own name resolves without error, at
\* the top level, in a block and inside another function, and every
\* recursive call runs that same function: f(k) prints k, k - 1, .., 0.
C21_RecursionReachesItself ==
    (unit.family = "recursion" /\ stage = "done") =>
        /\ raw_outcome = "Ok"
        /\ interpreter.output = [i \in 1..(unit.n + 1) |-> ToString(unit.n + 1 - i)]

\* C21 witness: the function declared inside another function has called
\* itself twice.
C21_Witness ==
    /\ unit.family = "recursion" /\ unit.shape = <<"function">>
    /\ stage = "done"
    /\ interpreter.output = <<"2", "1", "0">>
C23_NoLookupMisses ==
    stage \in {"execute", "done"} => raw_outcome # "panic"
C25_AssignmentTargets ==
    (unit.family = "assign" /\ stage = "done") =>
        IF unit.shape = <<"chain">>
        THEN /\ raw_outcome = "Ok"
             /\ interpreter.output = <<ToString(unit.n), ToString(unit.n), ToString(unit.n)>>
        ELSE /\ raw_outcome = "ParserError"
             /\ Len(ast) = 4
             /\ interpreter = Interpreter_new

\* C25 witness: the chain has assigned 2 to both variables.
C25_Witness ==
    /\ unit.family = "assign" /\ unit.shape = <<"chain">>
    /\ stage = "done"
    /\ interpreter.output = <<"2", "2", "2">>
\* The position in the text of the first character of token i, when the
\* lexemes of the tokens are the text.
RECURSIVE TokenStart(_, _)
TokenStart(ts, i) ==
    IF i = 1 THEN 1 ELSE TokenStart(ts, i - 1) + Len(ts[i - 1].lexeme)

\* C26: a number token is the longest run of digits, extended by a dot and
\* further digits only when the dot is directly followed by a digit.  In a
\* text without comment and string, every Number token starts and ends with
\* a digit, holds digits and at most one dot, is not preceded by a letter
\* or digit and is not followed by a digit, and is followed by a dot and a
\* digit only when it has a dot already; every dot of the text is a Dot
\* token of its own or the dot inside a Number token.  0.0 is one Number,
\* 0. is the Number 0 and a Dot, and 0.a is the Number 0, a Dot and an
\* identifier.
C26_NumberTakesDotOnlyBeforeDigit ==
    (unit.family = "scan" /\ stage # "scan"
        /\ Occurrences("/", unit.program) < 2 /\ Occurrences("\"", unit.program) = 0) =>
        /\ \A i \in DOMAIN tokens :
              LET first == TokenStart(tokens, i)
                  last == first + Len(tokens[i].lexeme) - 1
                  dots == {j \in first..last : unit.program[j] = "."}
              IN  /\ tokens[i].ty = "Number" =>
                        /\ unit.program[first] \in Digits
                        /\ unit.program[last] \in Digits
                        /\ \A j \in first..last : unit.program[j] \in Digits \cup {"."}
                        /\ Cardinality(dots) <= 1
                        /\ first > 1 => ~is_alpha(unit.program[first - 1])
                        /\ last < Len(unit.program) =>
                              unit.program[last + 1] \notin Digits
                        /\ (last + 1 < Len(unit.program)
                               /\ unit.program[last + 1] = "."
                               /\ unit.program[last + 2] \in Digits) => dots # {}
                  /\ tokens[i].ty = "Dot" => tokens[i].lexeme = "."
                  /\ dots # {} => tokens[i].ty \in {"Number", "Dot"}
        /\ unit.program = <<"0", ".", "0">> =>
              Len(tokens) = 1 /\ tokens[1].ty = "Number" /\ tokens[1].lexeme = "0.0"
        /\ unit.program = <<"0", ".">> =>
              /\ Len(tokens) = 2
              /\ tokens[1].ty = "Number" /\ tokens[1].lexeme = "0"
              /\ tokens[2].ty = "Dot"
        /\ unit.program = <<"0", ".", "a">> =>
              /\ Len(tokens) = 3
              /\ tokens[1].ty = "Number" /\ tokens[1].lexeme = "0"
              /\ tokens[2].ty = "Dot"
              /\ tokens[3].ty = "Identifier"

\* C26 witness: the text 0.a has been scanned.
C26_Witness ==
    /\ unit.family = "scan" /\ unit.program = <<"0", ".", "a">>
    /\ stage = "done"
    /\ Len(tokens) = 3
    /\ tokens[2].ty = "Dot"
\* C27: on two numbers l and r, print l > r, l >= r, l < r and l <= r print
\* the Boolean of the usual ordering of l and r; in particular n > n prints
\* false and n >= n prints true.
C27_ComparisonsOrderNumbers ==
    (unit.family = "comparison" /\ stage = "done") =>
        /\ raw_outcome = "Ok"
        /\ interpreter.output =
              << IF CASE unit.shape = <<">">> -> unit.left.n > unit.right.n
                      [] unit.shape = <<">=">> -> unit.left.n >= unit.right.n
                      [] unit.shape = <<"<">> -> unit.left.n < unit.right.n
                      [] unit.shape = <<"<=">> -> unit.left.n <= unit.right.n
                 THEN "true" ELSE "false" >>
\* C28: when a statement of a text fails to parse or to resolve, execute_raw
\* executes no statement of the text.  A call that ended in ParserError or
\* NameResolutionError executed nothing (pc is still 1) and printed nothing;
\* the interpreter is the new one after a first call, and in a session still
\* holds a = 1 and f of the first call, and nothing else.  A text with a
\* statement that fails to parse or resolve after well-formed ones never
\* reaches the execution of a statement.
C28_FaultyTextExecutesNothing ==
    /\ raw_outcome \in {"ParserError", "NameResolutionError"} =>
          /\ stage = "done"
          /\ pc = 1
          /\ interpreter.output = <<>>
          /\ line = 1 => interpreter = Interpreter_new
          /\ line > 1 =>
                /\ DOMAIN interpreter.bindings = {0, 1}
                /\ interpreter.cells[interpreter.bindings[0]] = LoxNumber(1)
                /\ interpreter.cells[interpreter.bindings[1]].t = "Function"
                /\ Len(interpreter.cells) = 2
    /\ ( /\ \/ unit.family \in {"recovery", "undeclared"}
             \/ (unit.family = "stages"
                   /\ (unit.shape[1] = "parse" \/ unit.shape[2] = "resolve"))
             \/ (unit.family = "assign" /\ unit.shape # <<"chain">>)
             \/ (unit.family = "scopes" /\ unit.shape[1] # "resolves")
          /\ stage \in {"execute", "done"} )
          => raw_outcome \in {"ParserError", "NameResolutionError"}

\* C28 witness: the block after var x = "global"; has failed to resolve, and
\* the interpreter has no binding and no output.
C28_Witness ==
    /\ unit.family = "scopes" /\ unit.shape = <<"uninitialized", "-">>
    /\ unit.n = 1
    /\ stage = "done" /\ raw_outcome = "NameResolutionError"
    /\ Len(ast) = 3
    /\ interpreter = Interpreter_new
\* C29: Parser::parse returns on every finite token sequence.  Wherever the
\* loop stands, its next turn, a parsed statement or a recovery, in normal
\* mode or in error-recovery mode, leaves the parser further in the token
\* stream than it was, and so does every turn taken; the loop ends, with
\* every token consumed, and what it returns is what parse computes.
C29_ParseTerminates ==
    /\ <>(stage = "done")
    /\ []((stage = "parse" /\ ~is_at_end(Source(tokens), parser.p)) =>
             Bind([s \in {declaration(Source(tokens), parser.p)} |->
                 (IF s.ok THEN s.p
                  ELSE advance_until_recovery_point(Source(tokens), s.p)).pos
                     > parser.p.pos ]))
    /\ [][(stage = "parse" /\ stage' = "parse") =>
             parser'.p.pos > parser.p.pos]_vars
    /\ [](stage = "done" =>
             /\ parser.p.pos = Len(Source(tokens)) + 1
             /\ ast = parse(tokens).statements
             /\ (raw_outcome = "Ok") = parse(tokens).ok)

\* C29 witness: parse has returned Err on the text return print ;, which no
\* statement begins: the first turn failed without consuming a token and
\* left the parser in error-recovery mode, and two recoveries consumed the
\* three tokens.
C29_Witness ==
    /\ unit.family = "parser"
    /\ tokens = <<K("return"), K("print"), K(";")>>
    /\ stage = "done"
    /\ raw_outcome = "ParserError"
    /\ parser.p.mode = "ErrorRecovery"
    /\ ast = <<>>
\* The binding ids of the declarations of resolved statements, one element
\* for every variable, function and parameter declared, in the order of the
\* text.
RECURSIVE DeclarationIds(_)
DeclarationIds(statements) ==
    IF statements = <<>> THEN <<>> ELSE
    LET s == Head(statements) IN
    (CASE s.k = "VariableDeclaration" -> <<s.binding_id>>
       [] s.k = "FunctionDeclaration" ->
             <<s.name_binding_id>> \o s.parameters_binding_ids
                 \o DeclarationIds(s.body)
       [] s.k = "Block" -> DeclarationIds(s.statements)
       [] s.k = "IfElse" ->
             DeclarationIds(<<s.if_branch>>) \o DeclarationIds(s.else_branch)
       [] s.k = "While" -> DeclarationIds(<<s.body>>)
       [] OTHER -> <<>>)
        \o DeclarationIds(Tail(statements))

\* C30: every declaration gets a binding id of its own.  In a text that
\* resolved, the ids of its declarations (variables, functions, parameters,
\* at every depth) are in the order of the text 0, 1, 2, .., each the value
\* of the cursor when it was defined: no two declarations share an id, also
\* when they declare the same name in the same scope or follow a block whose
\* scope has been left.  The redeclared a prints the value of the nearest
\* declaration.
C30_DeclarationsGetOwnIds ==
    /\ (stage \in {"execute", "done"}
           /\ raw_outcome \notin {"ParserError", "NameResolutionError"}) =>
          /\ DeclarationIds(resolved_ast) =
                [i \in 1..Len(DeclarationIds(resolved_ast)) |-> i - 1]
          /\ environment.binding_id_cursor = Len(DeclarationIds(resolved_ast))
    /\ (unit.family = "redeclare" /\ stage = "done") =>
          /\ raw_outcome = "Ok"
          /\ interpreter.output =
                [i \in 1..(2 * unit.n) |-> IF i % 2 = 1 THEN "1" ELSE "2"]

\* C30 witness: a text that declares a seven times, in the global scope
\* again after each of three blocks that declared their own, has ended, the
\* seven declarations under the ids 0 to 6.
C30_Witness ==
    /\ unit.family = "redeclare" /\ unit.n = 3
    /\ stage = "done" /\ raw_outcome = "Ok"
    /\ DeclarationIds(resolved_ast) = <<0, 1, 2, 3, 4, 5, 6>>
    /\ DOMAIN environment.current_scope.bindings = {"a"}
    /\ environment.current_scope.bindings["a"].id = 6
====
